---- MODULE Spec2Model ----
(***************************************************************************)
(* Model of the data-preparation scripts of greenbuilding-sg:              *)
(*   - merge-json  (src/unnamed/part_002, lines 355-381): SpecMerge        *)
(*   - either script started from the command line: SpecCli                *)
(*   - the web application's auth module (src/unnamed/part_000): SpecAuth  *)
(*   - the web application's App (src/frontend/src/App.tsx): SpecApp (the  *)
(*     compare selection and the plan), SpecLink (the query string)        *)
(*   - convert-csv (src/unnamed/part_003): SpecImport and SpecRuns (main), *)
(*     SpecCost (the numeric fields), SpecGeocode and SpecDistrict (the    *)
(*     geocoder), SpecRace (two runs at once on one cache file)            *)
(* Each specification drives its own variables and leaves the others at    *)
(* their idle values.                                                      *)
(***************************************************************************)
EXTENDS Integers, Sequences, FiniteSets, TLC

VARIABLES
    \* merge-json
    mpc,        \* position of the merger: "start", "usage", "failed", "merged",
                \* "againChunk", "againBase"
    minputs,    \* whether <base> and <chunk> can be read and parsed
    mergedFile, \* the file at <out>
    margv,      \* process.argv.slice(2) of the merger: which arguments are given
    base,       \* parsed content of <base>
    chunk,      \* parsed content of <chunk>
    merged,     \* the array written to <out> by the run on (base, chunk)
    again,      \* the array written by a second run that reads the first run's output
    \* convert-csv
    ipc,        \* position of main: "idle", "start", "loop", "sleeping", "fetching",
                \* "persisted", "done", "usage", "failed"
    argv,       \* process.argv.slice(2), and process.env.GEOCODE_DELAY_MS
    csv,        \* the rows of the CSV file at csvPath
    cacheFile,  \* geocode-cache.json
    cache,      \* the in-memory cache object
    offset,     \* const offset
    sliced,     \* const sliced
    skipGeocode,\* const skipGeocode
    i,          \* the loop index
    out,        \* const out
    outFile,    \* the file at outPath
    netLog,     \* history: cache file reads and writes, sleeps, network calls, answers
    \* convert-csv, the numeric fields of one record
    cpc,                \* "idle", "row", "synthesized", "emitted"
    crow,               \* the columns Rating, Project_Type and GFA of the row
    energyIntensity,    \* const energyIntensity
    totalFloorArea,     \* const totalFloorArea, in quarters of a square metre
    electricityMonthly, \* const electricityMonthly
    rentalMonthly,      \* const rentalMonthly
    estimatedMonthlyCost, \* the record's estimatedMonthlyCost
    \* convert-csv, one call of geocodePostalOrName
    gpc,        \* "idle", "called", "fetching", "returned", "threw"
    postalArg,  \* the argument postal
    nameArg,    \* the argument name
    service,    \* what the geocoding service has to answer
    requests,   \* history: the q of every request sent
    geo,        \* the value returned
    \* convert-csv, two runs at the same time on one cache file
    runs,       \* for each run: its position, its rows, const cache, the loop index
    sharedFile, \* the cache file both runs read and write
    \* the web application
    apc,        \* "idle", or what is on screen: "auth" for the account pages,
                \* "open" for App before its first render, "mounted" after it
    users,      \* localStorage gb_users, parsed
    session,    \* localStorage gb_session
    plans,      \* localStorage gb_plans, parsed
    authResult, \* history: the last call of the auth module, its arguments and what it returned
    actor,      \* history: the email of the user who registered or logged in last
    lastSet,    \* history: the tier each user chose last, by email
    app,        \* the useState values of App
    rendered,   \* the values of the last render whose effects have run
    searchParams, \* the query string of the address bar
    linked      \* history: the values whose query string was opened again

mergeVars == <<mpc, margv, minputs, mergedFile, base, chunk, merged, again>>

importVars == <<ipc, argv, csv, cacheFile, cache, offset, sliced, skipGeocode, i, out,
                outFile, netLog>>

costVars == <<cpc, crow, energyIntensity, totalFloorArea, electricityMonthly,
              rentalMonthly, estimatedMonthlyCost>>

geoVars == <<gpc, postalArg, nameArg, service, requests, geo>>

raceVars == <<runs, sharedFile>>

authVars == <<apc, users, session, plans, authResult, actor, lastSet>>

appVars == <<app, rendered, searchParams, linked>>

otherVars == <<raceVars, authVars, appVars>>

scriptVars == <<mergeVars, importVars, costVars, geoVars>>

vars == <<scriptVars, otherVars>>

(***************************************************************************)
(* Bounds                                                                  *)
(***************************************************************************)
MaxLen == 2     \* longest input array of the merger
MaxId == 2      \* largest building identifier in the merger's inputs
MaxRows == 2    \* most rows in the importer's CSV file
MaxRaceRows == 1    \* most rows of each of two runs at the same time
MaxUsers == 2   \* most users in storage, and the largest generated identifier
MaxBuildings == 4   \* the buildings on the page have identifiers 1..MaxBuildings
MaxPage == 2    \* pages of results

(***************************************************************************)
(* merge-json                                                              *)
(***************************************************************************)

\* The district values of the merger's records: "" stands for an absent or
\* empty district (falsy in `c.district && ...`).
MergeDistricts == {"", "Unknown", "Bedok"}

\* The fields of a BuildingRecord that main reads: the others are carried
\* along with the record and never looked at.
MergeRecords == [id : 1..MaxId, district : MergeDistricts]

RECURSIVE SeqsUpTo(_, _)
SeqsUpTo(S, n) ==
    IF n = 0 THEN {<<>>}
    ELSE LET shorter == SeqsUpTo(S, n - 1)
         IN  shorter \cup {Append(s, x) : s \in {t \in shorter : Len(t) = n - 1}, x \in S}

MergeInputs == SeqsUpTo(MergeRecords, MaxLen)

\* A JavaScript Map keyed by id, as the sequence of its values in insertion
\* order: set() on a present key replaces the value in place, on an absent
\* key appends.
MapIndex(m, id) ==
    IF \E j \in 1..Len(m) : m[j].id = id
    THEN CHOOSE j \in 1..Len(m) : m[j].id = id
    ELSE 0

MapHas(m, id) == MapIndex(m, id) # 0

MapGet(m, id) == m[MapIndex(m, id)]

MapSetAlwaysAppend(m, r) == Append(m, r)

MapSet(m, r) ==
    IF MapHas(m, r.id) THEN [m EXCEPT ![MapIndex(m, r.id)] = r] ELSE Append(m, r)

\* for (const b of base) map.set(b.id, b)
RECURSIVE LoadBase(_, _)
LoadBase(m, bs) ==
    IF bs = <<>> THEN m ELSE LoadBase(MapSet(m, Head(bs)), Tail(bs))

HasBetterIgnoresUnknown(c) == c.district # ""

\* const hasBetter = c.district && c.district !== 'Unknown'
HasBetter(c) == c.district # "" /\ c.district # "Unknown"

MergeChunkRecordDropsNew(m, c) ==
    IF ~MapHas(m, c.id) THEN m
    ELSE MapSet(m, IF HasBetter(c) THEN c ELSE MapGet(m, c.id))

\* the body of `for (const c of chunk)`
MergeChunkRecord(m, c) ==
    IF ~MapHas(m, c.id) THEN MapSet(m, c)
    ELSE MapSet(m, IF HasBetter(c) THEN c ELSE MapGet(m, c.id))

RECURSIVE ApplyChunk(_, _)
ApplyChunk(m, cs) ==
    IF cs = <<>> THEN m ELSE ApplyChunk(MergeChunkRecord(m, Head(cs)), Tail(cs))

\* Array.prototype.sort with (a, b) => a.id - b.id: a stable sort, here by
\* insertion of each element after the last element that is not greater.
RECURSIVE InsertById(_, _)
InsertById(s, r) ==
    IF s = <<>> THEN <<r>>
    ELSE IF s[Len(s)].id - r.id <= 0 THEN Append(s, r)
    ELSE Append(InsertById(SubSeq(s, 1, Len(s) - 1), r), s[Len(s)])

RECURSIVE SortFrom(_, _)
SortFrom(done, rest) ==
    IF rest = <<>> THEN done ELSE SortFrom(InsertById(done, Head(rest)), Tail(rest))

SortByIdUnsorted(s) == s

SortByIdDescending(s) == LET up == SortFrom(<<>>, s) IN [j \in 1..Len(up) |-> up[Len(up) + 1 - j]]

SortById(s) == SortFrom(<<>>, s)

\* main of merge-json, from the parsed inputs to the array it writes
Merge(b, c) == SortById(ApplyChunk(LoadBase(<<>>, b), c))


(***************************************************************************)
(* convert-csv: text                                                       *)
(* A string is the sequence of its characters; a fixed piece of text that  *)
(* the code never takes apart ("POSTAL:", ", Singapore") is one element.   *)
(***************************************************************************)
Digits == {"0", "1", "2", "3", "4", "5", "6", "7", "8", "9"}

DigitChars == <<"0", "1", "2", "3", "4", "5", "6", "7", "8", "9">>

LowerChars == <<"a", "b", "c", "d", "e", "f", "g", "h", "i", "j", "k", "l", "m",
                "n", "o", "p", "q", "r", "s", "t", "u", "v", "w", "x", "y", "z">>

UpperChars == <<"A", "B", "C", "D", "E", "F", "G", "H", "I", "J", "K", "L", "M",
                "N", "O", "P", "Q", "R", "S", "T", "U", "V", "W", "X", "Y", "Z">>

\* String.prototype.trim
RECURSIVE TrimLeft(_)
TrimLeft(s) == IF s # <<>> /\ Head(s) = " " THEN TrimLeft(Tail(s)) ELSE s

RECURSIVE TrimRight(_)
TrimRight(s) ==
    IF s # <<>> /\ s[Len(s)] = " " THEN TrimRight(SubSeq(s, 1, Len(s) - 1)) ELSE s

Trim(s) == TrimRight(TrimLeft(s))

\* String.prototype.toUpperCase
UpperChar(c) ==
    IF \E j \in 1..Len(LowerChars) : LowerChars[j] = c
    THEN UpperChars[CHOOSE j \in 1..Len(LowerChars) : LowerChars[j] = c]
    ELSE c

ToUpperCase(s) == [j \in 1..Len(s) |-> UpperChar(s[j])]

\* the decimal text of a non-negative integer, as `${id}` gives it
RECURSIVE NumberToString(_)
NumberToString(n) ==
    IF n < 10 THEN <<DigitChars[n + 1]>>
    ELSE Append(NumberToString(n \div 10), DigitChars[(n % 10) + 1])

\* /^\d{6}$/.test(p)
IsSixDigits(p) == Len(p) = 6 /\ \A j \in 1..Len(p) : p[j] \in Digits

\* the value of a numeral written in digits
DigitValue(c) == (CHOOSE j \in 1..10 : DigitChars[j] = c) - 1

RECURSIVE DigitsValue(_)
DigitsValue(s) ==
    IF s = <<>> THEN 0 ELSE 10 * DigitsValue(SubSeq(s, 1, Len(s) - 1)) + DigitValue(s[Len(s)])

(***************************************************************************)
(* convert-csv: inputs                                                     *)
(***************************************************************************)
DefaultLon == 103851959     \* 103.851959, in millionths of a degree
DefaultLat == 1290270       \* 1.29027, in millionths of a degree
DefaultLimit == 300

RawNames == {<<>>, <<"a", "b">>, <<"A", "B", " ">>}

RawPostals == {<<>>, <<"1", "2", "3", "4", "5", "6">>, <<" ", "1", "2", "3", "4", "5">>}

\* the columns of a CSV row that the geocoding reads: every name without a
\* postal code, and every postal code under one name
CsvRows ==
    {r \in [Project_Name : RawNames, Postal_Code : RawPostals] :
        r.Postal_Code = <<>> \/ r.Project_Name = <<"A", "B", " ">>}

CsvFiles == SeqsUpTo(CsvRows, MaxRows)

LimitArgs == {[kind |-> "absent", n |-> 0], [kind |-> "all", n |-> 0],
              [kind |-> "num", n |-> 0], [kind |-> "num", n |-> 1]}

OffsetArgs == {[kind |-> "absent", n |-> 0], [kind |-> "num", n |-> 1]}

SkipArgs == {"", "skip", "no"}

\* what the geocoding service may answer to one request: a failure (network
\* error, HTTP status not ok, unparsable body), an empty array, or a first
\* result, given here with the district pickDistrict resolves for it
GeoBedok == [lon |-> 103930000, lat |-> 1324000, district |-> "Bedok"]

GeoNoDistrict == [lon |-> 103800000, lat |-> 1350000, district |-> "Unknown"]

ServiceAnswers ==
    {[kind |-> "error", geo |-> GeoBedok], [kind |-> "empty", geo |-> GeoBedok],
     [kind |-> "found", geo |-> GeoBedok], [kind |-> "found", geo |-> GeoNoDistrict]}

MissEntry == [miss |-> TRUE, district |-> "Unknown"]

PostalKey == <<"POSTAL:", "1", "2", "3", "4", "5", "6">>

NameKey == <<"NAME:", "A", "B">>

EmptyCache == [k \in {} |-> MissEntry]

\* the cache files a run may find: none, or one that earlier runs wrote
CacheFiles ==
    {[exists |-> FALSE, content |-> EmptyCache],
     [exists |-> TRUE, content |-> [k \in {PostalKey} |-> GeoBedok]],
     [exists |-> TRUE,
      content |-> [k \in {PostalKey, NameKey} |-> IF k = PostalKey THEN MissEntry ELSE GeoNoDistrict]]}

\* process.env.GEOCODE_DELAY_MS: unset, or a number of milliseconds
DelayEnvs == {<<>>, <<"5">>}

NoArgs == [csvPath |-> FALSE, outPath |-> FALSE, limitArg |-> [kind |-> "absent", n |-> 0],
           skipArg |-> "", offsetArg |-> [kind |-> "absent", n |-> 0],
           delayEnv |-> <<>>]

\* the positional arguments: none, csvPath alone, or both paths and any of
\* the optional ones; with them, the delay set in the environment
Argvs ==
    {NoArgs, [NoArgs EXCEPT !.csvPath = TRUE]}
    \cup [csvPath : {TRUE}, outPath : {TRUE}, limitArg : LimitArgs,
          skipArg : SkipArgs, offsetArg : OffsetArgs, delayEnv : {<<>>}]
    \cup {[NoArgs EXCEPT !.csvPath = TRUE, !.outPath = TRUE, !.delayEnv = d] :
             d \in DelayEnvs}

NoFile == [exists |-> FALSE, content |-> <<>>]

\* const [basePath, chunkPath, outPath] = process.argv.slice(2): TRUE for an
\* argument that is given and not empty
MergeArgvs == [basePath : BOOLEAN, chunkPath : BOOLEAN, outPath : BOOLEAN]

AllMergeArgs == [basePath |-> TRUE, chunkPath |-> TRUE, outPath |-> TRUE]

NoMergeArgs == [basePath |-> FALSE, chunkPath |-> FALSE, outPath |-> FALSE]

MergeArgsMissingOnlyBase(a) == ~a.basePath

\* line 360: !basePath || !chunkPath || !outPath
MergeArgsMissing(a) == ~a.basePath \/ ~a.chunkPath \/ ~a.outPath

\* what readFile and JSON.parse make of an input file
InputStates == {"ok", "unreadable", "malformed"}

MergeInputStates == [base : InputStates, chunk : InputStates]

BothInputsOk == [base |-> "ok", chunk |-> "ok"]

MergeInputsOkBaseOnly(f) == f.base = "ok"

\* lines 364-365: both awaits and both JSON.parse calls return
MergeInputsOk(f) == f.base = "ok" /\ f.chunk = "ok"

MergeIdle ==
    /\ mpc = "idle"
    /\ margv = NoMergeArgs
    /\ minputs = BothInputsOk
    /\ mergedFile = NoFile
    /\ base = <<>>
    /\ chunk = <<>>
    /\ merged = <<>>
    /\ again = <<>>

ImportIdle ==
    /\ ipc = "idle"
    /\ argv = NoArgs
    /\ csv = <<>>
    /\ cacheFile = [exists |-> FALSE, content |-> EmptyCache]
    /\ cache = EmptyCache
    /\ offset = 0
    /\ sliced = <<>>
    /\ skipGeocode = FALSE
    /\ i = 0
    /\ out = <<>>
    /\ outFile = NoFile
    /\ netLog = <<>>

\* the value null
NullGeo == [null |-> TRUE]

GeoIdle ==
    /\ gpc = "idle"
    /\ postalArg = <<>>
    /\ nameArg = <<>>
    /\ service = [ok |-> FALSE, data |-> <<>>]
    /\ requests = <<>>
    /\ geo = NullGeo

\* the two runs
Runs == {1, 2}

\* a run that was not started
IdleRun == [pc |-> "idle", sliced |-> <<>>, i |-> 0, cache |-> EmptyCache,
            added |-> {}, written |-> FALSE]

RaceIdle ==
    /\ runs = [r \in Runs |-> IdleRun]
    /\ sharedFile = NoFile

\* localStorage.getItem returns null: nobody is logged in
NoSession == -1

\* the empty string as an identifier
EmptyId == 0

NoPlans == [k \in {} |-> "free"]

NoResult == [call |-> "", ok |-> TRUE, error |-> "", email |-> <<>>,
             password |-> <<>>]

AuthIdle ==
    /\ apc = "idle"
    /\ users = <<>>
    /\ session = NoSession
    /\ plans = NoPlans
    /\ authResult = NoResult
    /\ actor = <<>>
    /\ lastSet = NoPlans

\* no values are kept from before a reopening
NoLink == [none |-> TRUE]

AppIdle ==
    /\ app = NoLink
    /\ rendered = NoLink
    /\ searchParams = NoLink
    /\ linked = NoLink

OtherIdle == RaceIdle /\ AuthIdle /\ AppIdle

(***************************************************************************)
(* convert-csv: functions                                                  *)
(***************************************************************************)

\* Array.prototype.slice(start, end) with integer arguments
RelativeIndex(k, len) == IF k < 0 THEN (IF len + k < 0 THEN 0 ELSE len + k)
                         ELSE (IF k > len THEN len ELSE k)

Slice(s, start, end) ==
    LET from == RelativeIndex(start, Len(s))
        to == RelativeIndex(end, Len(s))
    IN  IF from >= to THEN <<>> ELSE SubSeq(s, from + 1, to)

SkipGeocodeNever(skipArg) == FALSE

\* const skipGeocode = !!skipArg && /skip|true|1/i.test(skipArg)
SkipGeocode(skipArg) == skipArg # "" /\ skipArg \in {"skip", "true", "1"}

\* const offset = Number(offsetArg || 0)
OffsetOf(offsetArg) == IF offsetArg.kind = "absent" THEN 0 ELSE offsetArg.n

SlicedIgnoresLimit(records, limitArg, off) == Slice(records, off, Len(records))

\* const sliced = (limitArg && /all/i.test(limitArg)) ? records.slice(offset)
\*     : records.slice(offset, offset + Number(limitArg || 300))
Sliced(records, limitArg, off) ==
    IF limitArg.kind = "all" THEN Slice(records, off, Len(records))
    ELSE Slice(records, off,
               off + (IF limitArg.kind = "absent" THEN DefaultLimit ELSE limitArg.n))

RecordIdWithoutOffset(off, idx) == idx + 1

\* const id = offset + i + 1
RecordId(off, idx) == off + idx + 1

\* const name = r.Project_Name?.trim() || `Building ${id}`
NameOf(r, id) ==
    IF Trim(r.Project_Name) # <<>> THEN Trim(r.Project_Name)
    ELSE <<"B", "u", "i", "l", "d", "i", "n", "g", " ">> \o NumberToString(id)

\* const postal = (r.Postal_Code || '').toString().trim()
PostalOf(r) == Trim(r.Postal_Code)

makeCacheKey(postal, name) ==
    LET p == Trim(postal)
        n == Trim(name)
    IN  IF p # <<>> THEN <<"POSTAL:">> \o p
        ELSE IF n # <<>> THEN <<"NAME:">> \o ToUpperCase(n)
        ELSE <<"MISSING">>

QueryOfNameFirst(postal, name) ==
    LET p == Trim(postal)
        n == Trim(name)
    IN  IF n # <<>> THEN n \o <<", Singapore">>
        ELSE IF IsSixDigits(p) THEN p \o <<", Singapore">>
        ELSE <<>>

\* the q that geocodePostalOrName hands to geocodeQuery; <<>> when it
\* returns null without a request
QueryOf(postal, name) ==
    LET p == Trim(postal)
        n == Trim(name)
    IN  IF IsSixDigits(p) THEN p \o <<", Singapore">>
        ELSE IF n # <<>> THEN n \o <<", Singapore">>
        ELSE <<>>

IsMiss(entry) == "miss" \in DOMAIN entry

CachePutAlone(c, key, entry) == [k \in {key} |-> entry]

NeedsLookupUnlessPositive(c, key) == IF key \in DOMAIN c THEN IsMiss(c[key]) ELSE TRUE

\* the final else of the cache test: cache[key] is undefined
NeedsLookup(c, key) == key \notin DOMAIN c

CachePutHitsOnly(c, key, entry) ==
    IF IsMiss(entry) THEN c
    ELSE [k \in DOMAIN c \cup {key} |-> IF k = key THEN entry ELSE c[k]]

\* cache[key] = geo, cache[key] = { miss: true, district: 'Unknown' }
CachePut(c, key, entry) ==
    [k \in DOMAIN c \cup {key} |-> IF k = key THEN entry ELSE c[k]]

CacheAfterAnswerMissOnError(c, key, answer) ==
    IF answer.kind = "found" THEN CachePut(c, key, answer.geo)
    ELSE CachePut(c, key, MissEntry)

\* lines 198-211: geo is stored, null is stored as a miss, and a throw of
\* geocodePostalOrName goes to the catch past both assignments
CacheAfterAnswer(c, key, answer) ==
    CASE answer.kind = "error" -> c
      [] answer.kind = "empty" -> CachePut(c, key, MissEntry)
      [] answer.kind = "found" -> CachePut(c, key, answer.geo)

LoadCacheNever(file, readable) == EmptyCache

\* let cache = {}; try { cache = JSON.parse(await readFile(...)) } catch {}
LoadCache(file, readable) ==
    IF file.exists /\ readable THEN file.content ELSE EmptyCache

PersistCacheMerged(file, c) ==
    [exists |-> TRUE,
     content |-> [k \in DOMAIN file.content \cup DOMAIN c |->
                     IF k \in DOMAIN c THEN c[k] ELSE file.content[k]]]

\* await writeFile(<cache file>, JSON.stringify(cache, null, 2)): the whole
\* cache replaces the file
PersistCache(file, c) == [exists |-> TRUE, content |-> c]

\* out.push({ id, name, address, district, ..., coordinates: coords })
BuildingRecord(id, name, postal, district, coords) ==
    [id |-> id, name |-> name, address |-> <<"Singapore ">> \o postal,
     district |-> district, coordinates |-> coords]

\* let coords = [103.851959, 1.29027] // default CBD
DefaultCoords == <<DefaultLon, DefaultLat>>

\* Number.isFinite: the coordinates of the model's entries are integers
\* (millionths of a degree), as geocodeQuery stores them for a result with a
\* numeric lat and lon
IsFinite(x) == x \in Int

\* lines 186-194: what a record takes from the entry found in the cache
CoordsFromEntry(entry) ==
    IF IsMiss(entry) THEN DefaultCoords
    ELSE IF IsFinite(entry.lon) /\ IsFinite(entry.lat) THEN <<entry.lon, entry.lat>>
    ELSE DefaultCoords

DistrictFromEntry(entry) ==
    IF IsMiss(entry) THEN "Unknown"
    ELSE IF entry.district # "" THEN entry.district ELSE "Unknown"

DefaultDelayMs == 1200

GeocodeDelayMsFixed(env) == DefaultDelayMs

\* Number(process.env.GEOCODE_DELAY_MS || 1200), for a value written in digits
GeocodeDelayMs(env) == IF env # <<>> THEN DigitsValue(env) ELSE DefaultDelayMs

PcAfterRequestNotAwaited == "loop"

\* line 198: const geo = await geocodePostalOrName(postal, name); main is
\* suspended until the request is over
PcAfterRequest == "fetching"

PcAfterAnswerUncaught(kind) == IF kind = "error" THEN "failed" ELSE "loop"

\* lines 209-211: catch (e) { keep defaults }; whatever the answer, main goes
\* on to out.push and the next iteration
PcAfterAnswer(kind) == "loop"

PcAfterPersistUncaught(written) == IF written THEN "persisted" ELSE "failed"

\* lines 241-243: try { await writeFile(...) } catch {}; either way main goes
\* on to write the output file
PcAfterPersist(written) == "persisted"

CurrentId == RecordId(offset, i)

CurrentName == NameOf(sliced[i + 1], CurrentId)

CurrentPostal == PostalOf(sliced[i + 1])

CurrentKey == makeCacheKey(CurrentPostal, CurrentName)

(***************************************************************************)
(* convert-csv: the numeric fields of a record (lines 8-27, 170-175,       *)
(* 214-216). Areas are counted in quarters of a unit, so that a GFA such   *)
(* as 0.25 or 1000.5, which a double holds exactly, has an integer model.  *)
(***************************************************************************)
CostIdle ==
    /\ cpc = "idle"
    /\ crow = [Rating |-> "", Project_Type |-> "", GFA |-> <<>>]
    /\ energyIntensity = 0
    /\ totalFloorArea = 0
    /\ electricityMonthly = 0
    /\ rentalMonthly = 0
    /\ estimatedMonthlyCost = 0

\* Math.random(), in hundredths
RandomSamples == {0, 37, 50, 99}

Ratings == {"", "Platinum", "GoldPLUS", "Gold", "Legislated"}

ProjectTypes == {"", "Office", "Retail"}

GfaTexts == {<<>>, <<"4", "0", ",", "0", "0", "0">>, <<"0", ".", "2", "5">>,
             <<"1", "0", "0", "0", ".", "5">>, <<"N", "/", "A">>}

CostRows == [Rating : Ratings, Project_Type : ProjectTypes, GFA : GfaTexts]

\* Math.round of num/den, den > 0: the nearest integer, a half rounded up
MathRound(num, den) == (2 * num + den) \div (2 * den)

\* String(r.GFA || '').replace(/,/g, '')
RECURSIVE RemoveCommas(_)
RemoveCommas(s) ==
    IF s = <<>> THEN <<>>
    ELSE IF Head(s) = "," THEN RemoveCommas(Tail(s))
    ELSE <<Head(s)>> \o RemoveCommas(Tail(s))

RECURSIVE PowerOfTen(_)
PowerOfTen(n) == IF n = 0 THEN 1 ELSE 10 * PowerOfTen(n - 1)

\* Number(text) for a decimal numeral without sign or exponent: the value in
\* quarters, or NaN. The empty text is 0.
ParseNumber(s) ==
    LET dots == {j \in 1..Len(s) : s[j] = "."}
        point == IF dots = {} THEN Len(s) + 1 ELSE CHOOSE j \in dots : TRUE
        whole == SubSeq(s, 1, point - 1)
        frac == SubSeq(s, point + 1, Len(s))
        wellFormed == /\ Cardinality(dots) <= 1
                      /\ \A j \in 1..Len(s) : s[j] \in Digits \cup {"."}
                      /\ (s = <<>> \/ Len(whole) + Len(frac) > 0)
    IN  IF ~wellFormed THEN [nan |-> TRUE, quarters |-> 0]
        ELSE [nan |-> FALSE,
              quarters |-> (4 * (DigitsValue(whole) * PowerOfTen(Len(frac)) + DigitsValue(frac)))
                               \div PowerOfTen(Len(frac))]

\* Number.isFinite(gfaNum) ? gfaNum : 0
GfaFallback(gfa) ==
    LET gfaNum == ParseNumber(RemoveCommas(gfa))
    IN  IF gfaNum.nan THEN 0 ELSE gfaNum.quarters

\* r.Rating?.trim() || 'Certified'
RatingOf(r) == IF r.Rating # "" THEN r.Rating ELSE "Certified"

\* r.Project_Type?.trim() || 'Mixed Use'
ProjectTypeOf(r) == IF r.Project_Type # "" THEN r.Project_Type ELSE "Mixed Use"

synthEnergyIntensity(rating, random) ==
    CASE rating = "Platinum" -> MathRound(100 * 80 + random * 25, 100)
      [] rating = "GoldPLUS" -> MathRound(100 * 100 + random * 25, 100)
      [] rating = "Gold" -> MathRound(100 * 145 + random * 35, 100)
      [] rating = "Certified" -> MathRound(100 * 160 + random * 25, 100)
      [] OTHER -> MathRound(100 * 150 + random * 40, 100)

\* the result in quarters
synthFloorAreaByType(type, fallback, random) ==
    IF fallback # 0 THEN fallback
    ELSE 4 * (CASE type = "Office" -> MathRound(100 * 10000 + random * 60000, 100)
                [] type = "Retail" -> MathRound(100 * 30000 + random * 90000, 100)
                [] type = "Industrial" -> MathRound(100 * 20000 + random * 100000, 100)
                [] type = "Data Centre" -> MathRound(100 * 30000 + random * 80000, 100)
                [] OTHER -> MathRound(100 * 15000 + random * 60000, 100))

\* Math.round((energyIntensity * totalFloorArea / 12) * 0.25)
ElectricityMonthly(energy, areaQuarters) == MathRound(energy * areaQuarters, 4 * 12 * 4)

\* Math.round(totalFloorArea * 10)
RentalMonthly(areaQuarters) == MathRound(areaQuarters * 10, 4)

EstimatedMonthlyCostRoundedOnce(energy, areaQuarters) ==
    MathRound(energy * areaQuarters + 4 * 12 * 10 * areaQuarters, 4 * 12 * 4)

\* const estimatedMonthlyCost = electricityMonthly + rentalMonthly
EstimatedMonthlyCost(energy, areaQuarters) ==
    ElectricityMonthly(energy, areaQuarters) + RentalMonthly(areaQuarters)

CostInit ==
    /\ MergeIdle
    /\ OtherIdle
    /\ ImportIdle
    /\ GeoIdle
    /\ cpc = "row"
    /\ crow \in CostRows
    /\ energyIntensity = 0
    /\ totalFloorArea = 0
    /\ electricityMonthly = 0
    /\ rentalMonthly = 0
    /\ estimatedMonthlyCost = 0

\* lines 170-175
CostSynthesize ==
    /\ cpc = "row"
    /\ \E randomArea \in RandomSamples :
        totalFloorArea' = synthFloorAreaByType(ProjectTypeOf(crow), GfaFallback(crow.GFA),
                                               randomArea)
    /\ \E randomEnergy \in RandomSamples :
        energyIntensity' = synthEnergyIntensity(RatingOf(crow), randomEnergy)
    /\ cpc' = "synthesized"
    /\ UNCHANGED <<crow, electricityMonthly, rentalMonthly, estimatedMonthlyCost>>
    /\ UNCHANGED <<mergeVars, importVars, geoVars, otherVars>>

\* lines 214-216 and 229
CostEmit ==
    /\ cpc = "synthesized"
    /\ electricityMonthly' = ElectricityMonthly(energyIntensity, totalFloorArea)
    /\ rentalMonthly' = RentalMonthly(totalFloorArea)
    /\ estimatedMonthlyCost' = EstimatedMonthlyCost(energyIntensity, totalFloorArea)
    /\ cpc' = "emitted"
    /\ UNCHANGED <<crow, energyIntensity, totalFloorArea>>
    /\ UNCHANGED <<mergeVars, importVars, geoVars, otherVars>>

CostNext == CostSynthesize \/ CostEmit

SpecCost == CostInit /\ [][CostNext]_vars

(***************************************************************************)
(* convert-csv: main                                                       *)
(* One action per stretch of main between two awaits.                      *)
(***************************************************************************)
ImportInit ==
    /\ MergeIdle
    /\ OtherIdle
    /\ CostIdle
    /\ GeoIdle
    /\ ipc = "start"
    /\ argv \in Argvs
    /\ csv \in CsvFiles
    /\ cacheFile \in CacheFiles
    /\ cache = EmptyCache
    /\ offset = 0
    /\ sliced = <<>>
    /\ skipGeocode = FALSE
    /\ i = 0
    /\ out = <<>>
    /\ outFile = NoFile
    /\ netLog = <<>>

\* lines 140-143: usage and process.exit(1)
ImportUsage ==
    /\ ipc = "start"
    /\ ~argv.csvPath \/ ~argv.outPath
    /\ ipc' = "usage"
    /\ UNCHANGED <<argv, csv, cacheFile, cache, offset, sliced, skipGeocode, i, out,
                   outFile, netLog>>
    /\ UNCHANGED <<mergeVars, costVars, geoVars, otherVars>>

\* lines 145-149: the CSV file cannot be read or parsed; main().catch exits 1
ImportReadFails ==
    /\ ipc = "start"
    /\ argv.csvPath /\ argv.outPath
    /\ ipc' = "failed"
    /\ UNCHANGED <<argv, csv, cacheFile, cache, offset, sliced, skipGeocode, i, out,
                   outFile, netLog>>
    /\ UNCHANGED <<mergeVars, costVars, geoVars, otherVars>>

\* lines 144-160: parse the arguments, read the CSV, load the cache (the file
\* may be there and still fail to be read or parsed), slice
ImportStart ==
    /\ ipc = "start"
    /\ argv.csvPath /\ argv.outPath
    /\ skipGeocode' = SkipGeocode(argv.skipArg)
    /\ \E readable \in BOOLEAN :
        /\ cache' = LoadCache(cacheFile, readable)
        /\ netLog' = Append(netLog, [kind |-> "load", id |-> 0, query |-> <<>>,
                                     ok |-> cacheFile.exists /\ readable])
    /\ offset' = OffsetOf(argv.offsetArg)
    /\ sliced' = Sliced(csv, argv.limitArg, OffsetOf(argv.offsetArg))
    /\ out' = <<>>
    /\ i' = 0
    /\ ipc' = "loop"
    /\ UNCHANGED <<argv, csv, cacheFile, outFile>>
    /\ UNCHANGED <<mergeVars, costVars, geoVars, otherVars>>

\* one iteration with skipGeocode set: lines 162-181 and 214-235
ImportRecordSkipped ==
    /\ ipc = "loop"
    /\ i < Len(sliced)
    /\ skipGeocode
    /\ out' = Append(out, BuildingRecord(CurrentId, CurrentName, CurrentPostal,
                                         "Unknown", DefaultCoords))
    /\ i' = i + 1
    /\ UNCHANGED <<ipc, argv, csv, cacheFile, cache, offset, sliced, skipGeocode,
                   outFile, netLog>>
    /\ UNCHANGED <<mergeVars, costVars, geoVars, otherVars>>

\* one iteration that finds its key in the cache: lines 184-194
ImportRecordCached ==
    /\ ipc = "loop"
    /\ i < Len(sliced)
    /\ ~skipGeocode
    /\ ~NeedsLookup(cache, CurrentKey)
    /\ out' = Append(out, BuildingRecord(CurrentId, CurrentName, CurrentPostal,
                                         DistrictFromEntry(cache[CurrentKey]),
                                         CoordsFromEntry(cache[CurrentKey])))
    /\ i' = i + 1
    /\ UNCHANGED <<ipc, argv, csv, cacheFile, cache, offset, sliced, skipGeocode,
                   outFile, netLog>>
    /\ UNCHANGED <<mergeVars, costVars, geoVars, otherVars>>

\* lines 195-197: the key is not cached; start the rate-limit sleep
ImportBeginLookup ==
    /\ ipc = "loop"
    /\ i < Len(sliced)
    /\ ~skipGeocode
    /\ NeedsLookup(cache, CurrentKey)
    /\ netLog' = Append(netLog, [kind |-> "sleep", id |-> CurrentId, query |-> <<>>,
                                 ms |-> GeocodeDelayMs(argv.delayEnv)])
    /\ ipc' = "sleeping"
    /\ UNCHANGED <<argv, csv, cacheFile, cache, offset, sliced, skipGeocode, i, out,
                   outFile>>
    /\ UNCHANGED <<mergeVars, costVars, geoVars, otherVars>>

\* lines 198 and 126-136, 100-107: the sleep is over; geocodePostalOrName
\* sends its request, or returns null when it has nothing to ask
ImportSleepDone ==
    /\ ipc = "sleeping"
    /\ IF QueryOf(CurrentPostal, CurrentName) # <<>>
       THEN /\ netLog' = Append(netLog, [kind |-> "call", id |-> CurrentId,
                                         query |-> QueryOf(CurrentPostal, CurrentName)])
            /\ ipc' = PcAfterRequest
            /\ UNCHANGED <<cache, out, i>>
       ELSE /\ cache' = CachePut(cache, CurrentKey, MissEntry)
            /\ out' = Append(out, BuildingRecord(CurrentId, CurrentName, CurrentPostal,
                                                 "Unknown", DefaultCoords))
            /\ i' = i + 1
            /\ ipc' = "loop"
            /\ UNCHANGED netLog
    /\ UNCHANGED <<argv, csv, cacheFile, offset, sliced, skipGeocode, outFile>>
    /\ UNCHANGED <<mergeVars, costVars, geoVars, otherVars>>

\* lines 108-115 and 199-235: the request is over; the answer of the service
\* goes on record in netLog
ImportLookupDone ==
    /\ ipc = "fetching"
    /\ \E answer \in ServiceAnswers :
        /\ netLog' = Append(netLog, [kind |-> answer.kind, id |-> CurrentId,
                                     query |-> <<>>, geo |-> answer.geo])
        /\ cache' = CacheAfterAnswer(cache, CurrentKey, answer)
        /\ out' = Append(out,
                    IF answer.kind = "found"
                    THEN BuildingRecord(CurrentId, CurrentName, CurrentPostal,
                                        answer.geo.district, <<answer.geo.lon, answer.geo.lat>>)
                    ELSE BuildingRecord(CurrentId, CurrentName, CurrentPostal,
                                        "Unknown", DefaultCoords))
        /\ ipc' = PcAfterAnswer(answer.kind)
    /\ i' = i + 1
    /\ UNCHANGED <<argv, csv, cacheFile, offset, sliced, skipGeocode, outFile>>
    /\ UNCHANGED <<mergeVars, costVars, geoVars, otherVars>>

\* lines 240-243: the loop is over; write the cache file, or fail to
ImportPersist ==
    /\ ipc = "loop"
    /\ i = Len(sliced)
    /\ \E written \in BOOLEAN :
        /\ cacheFile' = IF written THEN PersistCache(cacheFile, cache) ELSE cacheFile
        /\ netLog' = Append(netLog, [kind |-> "persist", id |-> 0, query |-> <<>>,
                                     ok |-> written])
        /\ ipc' = PcAfterPersist(written)
    /\ UNCHANGED <<argv, csv, cache, offset, sliced, skipGeocode, i, out, outFile>>
    /\ UNCHANGED <<mergeVars, costVars, geoVars, otherVars>>

\* lines 244-245: write the output file
ImportWriteOut ==
    /\ ipc = "persisted"
    /\ outFile' = [exists |-> TRUE, content |-> out]
    /\ ipc' = "done"
    /\ UNCHANGED <<argv, csv, cacheFile, cache, offset, sliced, skipGeocode, i, out, netLog>>
    /\ UNCHANGED <<mergeVars, costVars, geoVars, otherVars>>

\* line 244 throws: main().catch exits 1
ImportWriteFails ==
    /\ ipc = "persisted"
    /\ ipc' = "failed"
    /\ UNCHANGED <<argv, csv, cacheFile, cache, offset, sliced, skipGeocode, i, out,
                   outFile, netLog>>
    /\ UNCHANGED <<mergeVars, costVars, geoVars, otherVars>>

ImportNext ==
    \/ ImportUsage
    \/ ImportReadFails
    \/ ImportStart
    \/ ImportRecordSkipped
    \/ ImportRecordCached
    \/ ImportBeginLookup
    \/ ImportSleepDone
    \/ ImportLookupDone
    \/ ImportPersist
    \/ ImportWriteOut
    \/ ImportWriteFails

SpecImport == ImportInit /\ [][ImportNext]_vars

(***************************************************************************)
(* convert-csv: two runs of the same command, the second one finding the   *)
(* cache file as the first one left it                                     *)
(***************************************************************************)
\* the selection is left at its defaults: every row of these files
RunsArgvs ==
    {a \in Argvs : a.limitArg.kind = "absent" /\ a.offsetArg.kind = "absent"
                   /\ a.skipArg # "no"}

\* rows with a six-digit postal code, with a shorter one, and with none
RunsRows == {r \in CsvRows : r.Project_Name = <<"A", "B", " ">>}

\* the first run finds no cache file: what the second run finds there, the
\* first run wrote
RunsInit ==
    /\ ImportInit
    /\ argv \in RunsArgvs
    /\ csv \in SeqsUpTo(RunsRows, MaxRows)
    /\ ~cacheFile.exists

\* the first run has ended; node convert-csv.mjs is started again with the
\* same arguments and CSV. Only the files outlive the process.
ImportRunAgain ==
    /\ ipc = "done"
    /\ \A e \in 1..Len(netLog) : netLog[e].kind # "run"
    /\ ipc' = "start"
    /\ cache' = EmptyCache
    /\ offset' = 0
    /\ sliced' = <<>>
    /\ skipGeocode' = FALSE
    /\ i' = 0
    /\ out' = <<>>
    /\ netLog' = Append(netLog, [kind |-> "run", id |-> 0, query |-> <<>>])
    /\ UNCHANGED <<argv, csv, cacheFile, outFile>>
    /\ UNCHANGED <<mergeVars, costVars, geoVars, otherVars>>

RunsNext ==
    \/ ImportUsage
    \/ ImportReadFails
    \/ ImportStart
    \/ ImportRecordSkipped
    \/ ImportRecordCached
    \/ ImportBeginLookup
    \/ ImportSleepDone
    \/ ImportLookupDone
    \/ ImportPersist
    \/ ImportWriteOut
    \/ ImportWriteFails
    \/ ImportRunAgain

SpecRuns == RunsInit /\ [][RunsNext]_vars

(***************************************************************************)
(* convert-csv: two runs started at the same time against one cache file.  *)
(* A run touches the file at lines 153 and 242 only; between them its      *)
(* steps are its records, each with the outcome of its lookup.             *)
(***************************************************************************)
RaceInit ==
    /\ MergeIdle
    /\ ImportIdle
    /\ CostIdle
    /\ GeoIdle
    /\ AuthIdle
    /\ AppIdle
    /\ \E s1 \in SeqsUpTo(RunsRows, MaxRaceRows), s2 \in SeqsUpTo(RunsRows, MaxRaceRows) :
        runs = [r \in Runs |->
                   [IdleRun EXCEPT !.pc = "start", !.sliced = IF r = 1 THEN s1 ELSE s2]]
    /\ sharedFile \in CacheFiles

\* the key of the record run r is at
RaceKey(r) ==
    makeCacheKey(PostalOf(runs[r].sliced[runs[r].i + 1]),
                 NameOf(runs[r].sliced[runs[r].i + 1], RecordId(0, runs[r].i)))

\* lines 150-154: the run loads the cache file, or fails to and starts empty
RaceStart(r) ==
    /\ runs[r].pc = "start"
    /\ \E readable \in BOOLEAN :
        runs' = [runs EXCEPT ![r].pc = "loop",
                             ![r].cache = LoadCache(sharedFile, readable)]
    /\ UNCHANGED sharedFile
    /\ UNCHANGED <<scriptVars, authVars, appVars>>

\* lines 161-235: one record of the run; a key the cache has is served from
\* it, any other key is looked up and the answer, unless the lookup throws,
\* is stored
RaceRecord(r) ==
    /\ runs[r].pc = "loop"
    /\ runs[r].i < Len(runs[r].sliced)
    /\ IF NeedsLookup(runs[r].cache, RaceKey(r))
       THEN \E answer \in ServiceAnswers :
              runs' = [runs EXCEPT
                  ![r].i = @ + 1,
                  ![r].cache = CacheAfterAnswer(@, RaceKey(r), answer),
                  ![r].added = IF answer.kind = "error" THEN @ ELSE @ \cup {RaceKey(r)}]
       ELSE runs' = [runs EXCEPT ![r].i = @ + 1]
    /\ UNCHANGED sharedFile
    /\ UNCHANGED <<scriptVars, authVars, appVars>>

\* lines 240-243: the run writes the cache file, or fails to
RacePersist(r) ==
    /\ runs[r].pc = "loop"
    /\ runs[r].i = Len(runs[r].sliced)
    /\ \E written \in BOOLEAN :
        /\ sharedFile' = IF written THEN PersistCache(sharedFile, runs[r].cache)
                         ELSE sharedFile
        /\ runs' = [runs EXCEPT ![r].pc = PcAfterPersist(written),
                                ![r].written = written]
    /\ UNCHANGED <<scriptVars, authVars, appVars>>

RaceNext ==
    \/ \E r \in Runs : RaceStart(r)
    \/ \E r \in Runs : RaceRecord(r)
    \/ \E r \in Runs : RacePersist(r)

SpecRace == RaceInit /\ [][RaceNext]_vars

(***************************************************************************)
(* convert-csv: pickDistrict (lines 49-98)                                 *)
(***************************************************************************)

\* String.prototype.toLowerCase
LowerChar(c) ==
    IF \E j \in 1..Len(UpperChars) : UpperChars[j] = c
    THEN LowerChars[CHOOSE j \in 1..Len(UpperChars) : UpperChars[j] = c]
    ELSE c

ToLowerCase(s) == [j \in 1..Len(s) |-> LowerChar(s[j])]

\* replace(/\s+/g, ' '): every run of white space becomes one space
RECURSIVE CollapseSpaces(_)
CollapseSpaces(s) ==
    IF s = <<>> THEN <<>>
    ELSE IF Head(s) = " " THEN <<" ">> \o CollapseSpaces(TrimLeft(Tail(s)))
    ELSE <<Head(s)>> \o CollapseSpaces(Tail(s))

\* String.prototype.split on any of the characters seps: the pieces between
\* them, empty ones included
RECURSIVE SplitFrom(_, _, _, _)
SplitFrom(s, seps, piece, pieces) ==
    IF s = <<>> THEN Append(pieces, piece)
    ELSE IF Head(s) \in seps THEN SplitFrom(Tail(s), seps, <<>>, Append(pieces, piece))
    ELSE SplitFrom(Tail(s), seps, Append(piece, Head(s)), pieces)

Split(s, seps) == SplitFrom(s, seps, <<>>, <<>>)

\* Array.prototype.join
RECURSIVE Join(_, _)
Join(pieces, sep) ==
    IF pieces = <<>> THEN <<>>
    ELSE IF Len(pieces) = 1 THEN pieces[1]
    ELSE pieces[1] \o sep \o Join(Tail(pieces), sep)

\* the alternatives of the regular expression GENERIC

GENERIC ==
    { <<"S", "i", "n", "g", "a", "p", "o", "r", "e">>,
       <<"R", "e", "p", "u", "b", "l", "i", "c", " ", "o", "f", " ", "S", "i", "n", "g", "a", "p", "o", "r", "e">>,
       <<"C", "e", "n", "t", "r", "a", "l", " ", "S", "i", "n", "g", "a", "p", "o", "r", "e">>,
       <<"S", "o", "u", "t", "h", " ", "E", "a", "s", "t">>,
       <<"N", "o", "r", "t", "h", " ", "E", "a", "s", "t">>,
       <<"N", "o", "r", "t", "h", " ", "W", "e", "s", "t">>,
       <<"S", "o", "u", "t", "h", " ", "W", "e", "s", "t">> }

KNOWN ==
    << <<"A", "n", "g", " ", "M", "o", " ", "K", "i", "o">>,
       <<"B", "e", "d", "o", "k">>,
       <<"B", "i", "s", "h", "a", "n">>,
       <<"B", "u", "k", "i", "t", " ", "B", "a", "t", "o", "k">>,
       <<"B", "u", "k", "i", "t", " ", "M", "e", "r", "a", "h">>,
       <<"B", "u", "k", "i", "t", " ", "P", "a", "n", "j", "a", "n", "g">>,
       <<"B", "u", "k", "i", "t", " ", "T", "i", "m", "a", "h">>,
       <<"C", "h", "a", "n", "g", "i">>,
       <<"C", "h", "o", "a", " ", "C", "h", "u", " ", "K", "a", "n", "g">>,
       <<"C", "l", "e", "m", "e", "n", "t", "i">>,
       <<"D", "o", "w", "n", "t", "o", "w", "n", " ", "C", "o", "r", "e">>,
       <<"G", "e", "y", "l", "a", "n", "g">>,
       <<"H", "o", "u", "g", "a", "n", "g">>,
       <<"J", "u", "r", "o", "n", "g", " ", "E", "a", "s", "t">>,
       <<"J", "u", "r", "o", "n", "g", " ", "W", "e", "s", "t">>,
       <<"K", "a", "l", "l", "a", "n", "g">>,
       <<"M", "a", "r", "i", "n", "e", " ", "P", "a", "r", "a", "d", "e">>,
       <<"N", "o", "v", "e", "n", "a">>,
       <<"O", "u", "t", "r", "a", "m">>,
       <<"Q", "u", "e", "e", "n", "s", "t", "o", "w", "n">>,
       <<"R", "i", "v", "e", "r", " ", "V", "a", "l", "l", "e", "y">>,
       <<"R", "o", "c", "h", "o", "r">>,
       <<"T", "o", "a", " ", "P", "a", "y", "o", "h">>,
       <<"S", "e", "r", "a", "n", "g", "o", "o", "n">>,
       <<"S", "e", "m", "b", "a", "w", "a", "n", "g">>,
       <<"W", "o", "o", "d", "l", "a", "n", "d", "s">>,
       <<"Y", "i", "s", "h", "u", "n">>,
       <<"T", "a", "m", "p", "i", "n", "e", "s">>,
       <<"P", "a", "s", "i", "r", " ", "R", "i", "s">>,
       <<"P", "u", "n", "g", "g", "o", "l">>,
       <<"S", "e", "l", "e", "t", "a", "r">>,
       <<"T", "u", "a", "s">>,
       <<"B", "o", "o", "n", " ", "L", "a", "y">>,
       <<"K", "a", "t", "o", "n", "g">>,
       <<"S", "i", "g", "l", "a", "p">>,
       <<"N", "e", "w", "t", "o", "n">>,
       <<"O", "r", "c", "h", "a", "r", "d">>,
       <<"B", "u", "g", "i", "s">>,
       <<"M", "a", "r", "i", "n", "a", " ", "B", "a", "y">>,
       <<"T", "a", "n", "j", "o", "n", "g", " ", "P", "a", "g", "a", "r">>,
       <<"T", "e", "l", "o", "k", " ", "A", "y", "e", "r">>,
       <<"R", "a", "f", "f", "l", "e", "s", " ", "P", "l", "a", "c", "e">>,
       <<"S", "h", "e", "n", "t", "o", "n", " ", "W", "a", "y">>,
       <<"B", "a", "l", "e", "s", "t", "i", "e", "r">>,
       <<"J", "a", "l", "a", "n", " ", "B", "e", "s", "a", "r">>,
       <<"L", "a", "v", "e", "n", "d", "e", "r">> >>

CanonKeys ==
    { <<"M", "a", "r", "i", "n", "a">>,
      <<"M", "a", "r", "i", "n", "a", " ", "S", "o", "u", "t", "h">>,
      <<"J", "u", "r", "o", "n", "g">>,
      <<"C", "B", "D">>,
      <<"R", "a", "f", "f", "l", "e", "s">>,
      <<"T", "a", "n", "j", "o", "n", "g">> }

\* const CANON = new Map([...])
CANON ==
    [k \in CanonKeys |->
        CASE k = <<"M", "a", "r", "i", "n", "a">> ->
                 <<"M", "a", "r", "i", "n", "a", " ", "B", "a", "y">>
          [] k = <<"M", "a", "r", "i", "n", "a", " ", "S", "o", "u", "t", "h">> ->
                 <<"M", "a", "r", "i", "n", "a", " ", "B", "a", "y">>
          [] k = <<"J", "u", "r", "o", "n", "g">> ->
                 <<"J", "u", "r", "o", "n", "g", " ", "E", "a", "s", "t">>
          [] k = <<"C", "B", "D">> ->
                 <<"D", "o", "w", "n", "t", "o", "w", "n", " ", "C", "o", "r", "e">>
          [] k = <<"R", "a", "f", "f", "l", "e", "s">> ->
                 <<"R", "a", "f", "f", "l", "e", "s", " ", "P", "l", "a", "c", "e">>
          [] k = <<"T", "a", "n", "j", "o", "n", "g">> ->
                 <<"T", "a", "n", "j", "o", "n", "g", " ", "P", "a", "g", "a", "r">>]

UnknownDistrict == <<"U", "n", "k", "n", "o", "w", "n">>

\* const normalize = (s) => (s || '').trim().replace(/\s+/g, ' ')
normalize(s) == CollapseSpaces(Trim(s))

GenericLower == {ToLowerCase(g) : g \in GENERIC}

\* GENERIC.test(v): the whole of v is one of the alternatives, in any case
GenericTest(v) == ToLowerCase(v) \in GenericLower

\* x.split(' ').slice(0, 2).join(' ')
FirstTwoWords(x) == Join(Slice(Split(x, {" "}), 0, 2), <<" ">>)

canonicalizeWithoutAliases(s) == normalize(s)

\* CANON.get(x) || CANON.get(the first two words of x), else x itself
canonicalize(s) ==
    LET x == normalize(s)
        m == IF x \in CanonKeys THEN CANON[x]
             ELSE IF FirstTwoWords(x) \in CanonKeys THEN CANON[FirstTwoWords(x)]
             ELSE <<>>
    IN  IF m # <<>> THEN m ELSE x

\* k.toLowerCase(), for every k of KNOWN
KnownLower == {ToLowerCase(KNOWN[j]) : j \in 1..Len(KNOWN)}

\* KNOWN.some(k => k.toLowerCase() === c.toLowerCase())
IsKnown(c) == ToLowerCase(c) \in KnownLower

\* the fields of the address that pri lists, in its order
AddressFields ==
    <<"city_district", "suburb", "neighbourhood", "municipality", "quarter", "borough",
      "town", "village", "county", "region", "state_district">>

\* addr?.field, an absent one read as ''
FieldOf(addr, field) == IF field \in DOMAIN addr THEN addr[field] ELSE <<>>

\* filter(v => v && !GENERIC.test(v))
Kept(v) == v # <<>> /\ ~GenericTest(v)

NormalizeAll(pieces) == [j \in 1..Len(pieces) |-> normalize(pieces[j])]

\* const pri
Pri(addr) ==
    SelectSeq([j \in 1..Len(AddressFields) |-> normalize(FieldOf(addr, AddressFields[j]))],
              Kept)

\* the characters of /[,&/()-]/
HintSeparators == {",", "&", "/", "(", ")", "-"}

TokensHintFirst(displayName, hintName) ==
    SelectSeq(NormalizeAll(Split(hintName, HintSeparators))
                  \o NormalizeAll(Split(displayName, {","})),
              Kept)

\* const tokens
Tokens(displayName, hintName) ==
    SelectSeq(NormalizeAll(Split(displayName, {","}))
                  \o NormalizeAll(Split(hintName, HintSeparators)),
              Kept)

\* for (const v of values) { const c = canonicalize(v); if (KNOWN.some(...)) return c }
\* <<>> when the loop ends without a return
RECURSIVE FirstKnown(_)
FirstKnown(values) ==
    IF values = <<>> THEN <<>>
    ELSE IF IsKnown(canonicalize(Head(values))) THEN canonicalize(Head(values))
    ELSE FirstKnown(Tail(values))

pickDistrict(addr, displayName, hintName, postal) ==
    LET pri == Pri(addr)
        byField == FirstKnown(pri)
        byToken == FirstKnown(Tokens(displayName, hintName))
    IN  IF byField # <<>> THEN byField
        ELSE IF byToken # <<>> THEN byToken
        ELSE IF pri # <<>> THEN pri[1]
        ELSE UnknownDistrict

(***************************************************************************)
(* convert-csv: geocodePostalOrName and geocodeQuery (lines 100-136), one  *)
(* call. SpecGeocode draws the arguments widely and the answer from a few  *)
(* results; SpecDistrict draws the one result of the answer widely.        *)
(***************************************************************************)
MaxResults == 2     \* most results in one answer of the service
MaxFields == 2      \* most address fields present in one result

\* two results of the service, as JSON gives them; lat and lon in millionths
\* of a degree
ResultBedok ==
    [lat |-> 1324000, lon |-> 103930000,
     display_name |-> <<"B", "e", "d", "o", "k", ",", " ", "S", "i", "n", "g", "a", "p", "o",
                        "r", "e">>,
     address |-> [f \in {"suburb"} |-> <<"B", "e", "d", "o", "k">>]]

ResultYishun ==
    [lat |-> 1430000, lon |-> 103835000,
     display_name |-> <<"1", " ", "Y", "i", "s", "h", "u", "n", " ", "A", "v", "e", ",", " ",
                        "Y", "i", "s", "h", "u", "n", ",", " ", "S", "i", "n", "g", "a", "p",
                        "o", "r", "e">>,
     address |-> [f \in {"city_district"} |-> <<"S", "i", "n", "g", "a", "p", "o", "r", "e">>]]

GeocodeResults == {ResultBedok, ResultYishun}

\* a failure (fetch rejects, the status is not ok, or the body does not
\* parse), or a JSON array of results
GeocodeServices ==
    {[ok |-> FALSE, data |-> <<>>]}
    \cup {[ok |-> TRUE, data |-> d] : d \in SeqsUpTo(GeocodeResults, MaxResults)}

GeocodePostals == RawPostals \cup {<<" ", "1", "2", "3", "4", "5", "6", " ">>}

\* lines 110-115: the value geocodeQuery returns for the parsed body data
GeoOf(data, hintName, postal) ==
    IF Len(data) > 0
    THEN [lat |-> data[1].lat, lon |-> data[1].lon,
          district |-> pickDistrict(data[1].address, data[1].display_name,
                                    hintName, postal)]
    ELSE NullGeo

GeocodeInit ==
    /\ MergeIdle
    /\ OtherIdle
    /\ ImportIdle
    /\ CostIdle
    /\ gpc = "called"
    /\ postalArg \in GeocodePostals
    /\ nameArg \in RawNames
    /\ service \in GeocodeServices
    /\ requests = <<>>
    /\ geo = NullGeo

\* lines 127-135: neither a six-digit postal code nor a name: return null
GeocodeNothingToAsk ==
    /\ gpc = "called"
    /\ QueryOf(postalArg, nameArg) = <<>>
    /\ geo' = NullGeo
    /\ gpc' = "returned"
    /\ UNCHANGED <<postalArg, nameArg, service, requests>>
    /\ UNCHANGED <<mergeVars, importVars, costVars, otherVars>>

\* lines 129-134 and 101-107: geocodeQuery sends its request for q
GeocodeRequest ==
    /\ gpc = "called"
    /\ QueryOf(postalArg, nameArg) # <<>>
    /\ requests' = Append(requests, QueryOf(postalArg, nameArg))
    /\ gpc' = "fetching"
    /\ UNCHANGED <<postalArg, nameArg, service, geo>>
    /\ UNCHANGED <<mergeVars, importVars, costVars, otherVars>>

\* lines 102-109: fetch rejects, res.ok is false or res.json() rejects
GeocodeThrows ==
    /\ gpc = "fetching"
    /\ ~service.ok
    /\ gpc' = "threw"
    /\ UNCHANGED <<postalArg, nameArg, service, requests, geo>>
    /\ UNCHANGED <<mergeVars, importVars, costVars, otherVars>>

\* lines 109-115, with hintName n and postal p of lines 127-133
GeocodeReturns ==
    /\ gpc = "fetching"
    /\ service.ok
    /\ geo' = GeoOf(service.data, Trim(nameArg), Trim(postalArg))
    /\ gpc' = "returned"
    /\ UNCHANGED <<postalArg, nameArg, service, requests>>
    /\ UNCHANGED <<mergeVars, importVars, costVars, otherVars>>

GeocodeNext ==
    \/ GeocodeNothingToAsk
    \/ GeocodeRequest
    \/ GeocodeThrows
    \/ GeocodeReturns

SpecGeocode == GeocodeInit /\ [][GeocodeNext]_vars

\* values of an address field: a generic one, an alias, an allow-listed name
\* in lower case, and two names that are neither, one with white space before
\* and inside
DistrictValues ==
    { <<"S", "i", "n", "g", "a", "p", "o", "r", "e">>,
      <<"M", "a", "r", "i", "n", "a", " ", "S", "o", "u", "t", "h">>,
      <<"b", "e", "d", "o", "k">>,
      <<" ", "K", "a", "m", "p", "o", "n", "g", " ", " ", "G", "l", "a", "m">>,
      <<"T", "i", "o", "n", "g", " ", "B", "a", "h", "r", "u">> }

\* the addresses with at most MaxFields of the fields present
DistrictAddrs ==
    UNION {[present -> DistrictValues] :
             present \in {fs \in SUBSET {AddressFields[j] : j \in 1..Len(AddressFields)} :
                            Cardinality(fs) <= MaxFields}}

DisplayNames ==
    { <<>>,
      <<"F", "o", "o", ",", " ", "Y", "i", "s", "h", "u", "n", ",", " ", "S", "i", "n", "g", "a", "p", "o", "r", "e">>,
      <<"F", "o", "o", ",", " ", "S", "i", "n", "g", "a", "p", "o", "r", "e">> }

\* building names, which geocodePostalOrName passes on as hintName
HintNames ==
    { <<>>,
      <<"M", "a", "l", "l", " ", "(", "O", "r", "c", "h", "a", "r", "d", ")">>,
      <<"C", "B", "D", " ", "&", " ", "B", "a", "r">> }

DistrictResults ==
    [lat : {1300000}, lon : {103800000}, display_name : DisplayNames,
     address : DistrictAddrs]

DistrictServices ==
    {[ok |-> FALSE, data |-> <<>>]} \cup {[ok |-> TRUE, data |-> <<r>>] : r \in DistrictResults}

\* a six-digit postal code with each name, and neither postal code nor name
DistrictArgs ==
    {[postal |-> <<"1", "2", "3", "4", "5", "6">>, name |-> h] : h \in HintNames}
    \cup {[postal |-> <<>>, name |-> <<>>]}

DistrictInit ==
    /\ MergeIdle
    /\ OtherIdle
    /\ ImportIdle
    /\ CostIdle
    /\ gpc = "called"
    /\ \E a \in DistrictArgs : postalArg = a.postal /\ nameArg = a.name
    /\ service \in DistrictServices
    /\ requests = <<>>
    /\ geo = NullGeo

SpecDistrict == DistrictInit /\ [][GeocodeNext]_vars

(***************************************************************************)
(* merge-json: main                                                        *)
(***************************************************************************)
MergeInit ==
    /\ CostIdle
    /\ GeoIdle
    /\ OtherIdle
    /\ mpc = "start"
    /\ margv = AllMergeArgs
    /\ minputs = BothInputsOk
    /\ mergedFile = NoFile
    /\ base \in MergeInputs
    /\ chunk \in MergeInputs
    /\ merged = <<>>
    /\ again = <<>>
    /\ ImportIdle

\* lines 360-363: usage and process.exit(1)
MergeUsage ==
    /\ mpc = "start"
    /\ MergeArgsMissing(margv)
    /\ mpc' = "usage"
    /\ UNCHANGED <<margv, minputs, mergedFile, base, chunk, merged, again>>
    /\ UNCHANGED <<importVars, costVars, geoVars, otherVars>>

\* lines 364-365 and 381: readFile or JSON.parse throws for <base> or for
\* <chunk>; main().catch prints the error and exits with code 1
MergeReadFails ==
    /\ mpc = "start"
    /\ ~MergeArgsMissing(margv)
    /\ ~MergeInputsOk(minputs)
    /\ mpc' = "failed"
    /\ UNCHANGED <<margv, minputs, mergedFile, base, chunk, merged, again>>
    /\ UNCHANGED <<importVars, costVars, geoVars, otherVars>>

\* node merge-json.mjs <base> <chunk> <out>
MergeMain ==
    /\ mpc = "start"
    /\ ~MergeArgsMissing(margv)
    /\ MergeInputsOk(minputs)
    /\ merged' = Merge(base, chunk)
    /\ mergedFile' = [exists |-> TRUE, content |-> merged']
    /\ mpc' = "merged"
    /\ UNCHANGED <<margv, minputs, base, chunk, again>>
    /\ UNCHANGED <<importVars, costVars, geoVars, otherVars>>

\* node merge-json.mjs <out> <chunk> <out2>
MergeAgainWithChunk ==
    /\ mpc = "merged"
    /\ again' = Merge(merged, chunk)
    /\ mpc' = "againChunk"
    /\ UNCHANGED <<margv, minputs, mergedFile, base, chunk, merged>>
    /\ UNCHANGED <<importVars, costVars, geoVars, otherVars>>

\* node merge-json.mjs <base> <out> <out2>
MergeBaseWithMerged ==
    /\ mpc = "merged"
    /\ again' = Merge(base, merged)
    /\ mpc' = "againBase"
    /\ UNCHANGED <<margv, minputs, mergedFile, base, chunk, merged>>
    /\ UNCHANGED <<importVars, costVars, geoVars, otherVars>>

MergeNext == MergeMain \/ MergeAgainWithChunk \/ MergeBaseWithMerged

SpecMerge == MergeInit /\ [][MergeNext]_vars

(***************************************************************************)
(* Either script started from the command line, with any of its arguments  *)
(* given or missing.                                                       *)
(***************************************************************************)
\* the files at <base> and <chunk>: empty arrays and arrays of one record
CliInputs == {f \in MergeInputs : Len(f) <= 1}

\* a file left at <out> by an earlier command
StaleOutput == [exists |-> TRUE, content |-> <<>>]

MergeCliInit ==
    /\ CostIdle
    /\ GeoIdle
    /\ OtherIdle
    /\ ImportIdle
    /\ mpc = "start"
    /\ margv \in MergeArgvs
    /\ minputs \in MergeInputStates
    /\ mergedFile \in {NoFile, StaleOutput}
    /\ base \in CliInputs
    /\ chunk \in CliInputs
    /\ merged = <<>>
    /\ again = <<>>

CliInit == MergeCliInit \/ ImportInit

CliNext ==
    \/ MergeUsage
    \/ MergeReadFails
    \/ MergeMain
    \/ MergeAgainWithChunk
    \/ MergeBaseWithMerged
    \/ ImportUsage
    \/ ImportReadFails
    \/ ImportStart
    \/ ImportRecordSkipped
    \/ ImportRecordCached
    \/ ImportBeginLookup
    \/ ImportSleepDone
    \/ ImportLookupDone
    \/ ImportPersist
    \/ ImportWriteOut
    \/ ImportWriteFails

SpecCli == CliInit /\ [][CliNext]_vars

(***************************************************************************)
(* auth (src/unnamed/part_000): users, session and plans in localStorage.  *)
(* An identifier stands for the string generateId returns; EmptyId stands  *)
(* for the empty string, which slice(2, 10) returns for Math.random() = 0. *)
(***************************************************************************)
\* what the email field may hold
EmailInputs == {<<>>, <<"a">>, <<" ", "A">>, <<"b">>}

\* what the password field may hold
PasswordInputs == {<<>>, <<"p">>, <<"q">>}

\* export type PlanTier
PlanTiers == {"free", "pro", "team", "api"}

\* the strings generateId may return: Math.random() takes no account of the
\* identifiers already stored
GeneratedIds == EmptyId..MaxUsers

NoUser == [id |-> NoSession, email |-> <<>>, password |-> <<>>]

\* email = email.trim(), without the lower-casing
NormalizeEmailTrimOnly(email) == Trim(email)

\* email = email.trim().toLowerCase()
NormalizeEmail(email) == ToLowerCase(Trim(email))

\* Array.prototype.find over the positions that pass the test: the first
\* of them, or undefined
FirstAt(list, positions) ==
    IF positions = {} THEN NoUser
    ELSE list[CHOOSE j \in positions : \A k \in positions : j <= k]

\* lines 28-32: getCurrentUser
getCurrentUser(list, id) ==
    IF id = NoSession \/ id = EmptyId THEN NoUser
    ELSE FirstAt(list, {j \in 1..Len(list) : list[j].id = id})

\* lines 82-87: getCurrentPlan
getCurrentPlan(list, id, p) ==
    LET u == getCurrentUser(list, id)
    IN  IF u = NoUser THEN "free"
        ELSE IF u.id \in DOMAIN p THEN p[u.id] ELSE "free"

\* lines 89-95: setCurrentPlan, the plans it leaves in storage
setCurrentPlan(list, id, p, tier) ==
    LET u == getCurrentUser(list, id)
    IN  IF u = NoUser THEN p
        ELSE [k \in DOMAIN p \cup {u.id} |-> IF k = u.id THEN tier ELSE p[k]]

EmailTaken(list, email) == \E j \in 1..Len(list) : list[j].email = email

AuthInit ==
    /\ MergeIdle
    /\ ImportIdle
    /\ CostIdle
    /\ GeoIdle
    /\ RaceIdle
    /\ AppIdle
    /\ apc = "auth"
    /\ users = <<>>
    /\ session = NoSession
    /\ plans = NoPlans
    /\ authResult = NoResult
    /\ actor = <<>>
    /\ lastSet = NoPlans

\* lines 46-48: register without an email or without a password
RegisterRequired ==
    /\ apc = "auth"
    /\ \E email \in EmailInputs, password \in PasswordInputs :
        /\ NormalizeEmail(email) = <<>> \/ password = <<>>
        /\ authResult' = [call |-> "register", ok |-> FALSE,
                          error |-> "Email and password required",
                          email |-> NormalizeEmail(email),
                          password |-> password]
    /\ UNCHANGED <<apc, users, session, plans, actor, lastSet>>
    /\ UNCHANGED <<scriptVars, raceVars, appVars>>

\* lines 49-50: register with an email that is stored
RegisterTaken ==
    /\ apc = "auth"
    /\ \E email \in EmailInputs, password \in PasswordInputs :
        /\ NormalizeEmail(email) # <<>> /\ password # <<>>
        /\ EmailTaken(users, NormalizeEmail(email))
        /\ authResult' = [call |-> "register", ok |-> FALSE,
                          error |-> "Email already registered",
                          email |-> NormalizeEmail(email),
                          password |-> password]
    /\ UNCHANGED <<apc, users, session, plans, actor, lastSet>>
    /\ UNCHANGED <<scriptVars, raceVars, appVars>>

\* lines 51-55: register stores the user and opens its session
Register ==
    /\ apc = "auth"
    /\ Len(users) < MaxUsers
    /\ \E email \in EmailInputs, password \in PasswordInputs, id \in GeneratedIds :
        /\ NormalizeEmail(email) # <<>> /\ password # <<>>
        /\ ~EmailTaken(users, NormalizeEmail(email))
        /\ users' = Append(users, [id |-> id, email |-> NormalizeEmail(email),
                                   password |-> password])
        /\ session' = id
        /\ authResult' = [call |-> "register", ok |-> TRUE, error |-> "",
                          email |-> NormalizeEmail(email),
                          password |-> password]
        /\ actor' = NormalizeEmail(email)
    /\ UNCHANGED <<apc, plans, lastSet>>
    /\ UNCHANGED <<scriptVars, raceVars, appVars>>

\* lines 58-64: login
Login ==
    /\ apc \in {"auth", "mounted"}
    /\ \E email \in EmailInputs, password \in PasswordInputs :
        LET user == FirstAt(users, {j \in 1..Len(users) :
                                       /\ users[j].email = NormalizeEmail(email)
                                       /\ users[j].password = password})
        IN  IF user = NoUser
            THEN /\ authResult' = [call |-> "login", ok |-> FALSE,
                                   error |-> "Invalid credentials",
                                   email |-> NormalizeEmail(email),
                          password |-> password]
                 /\ UNCHANGED <<session, actor>>
            ELSE /\ session' = user.id
                 /\ authResult' = [call |-> "login", ok |-> TRUE, error |-> "",
                                   email |-> user.email,
                                   password |-> password]
                 /\ actor' = user.email
    /\ UNCHANGED <<apc, users, plans, lastSet>>
    /\ UNCHANGED <<scriptVars, raceVars, appVars>>

\* lines 38-40: logout
Logout ==
    /\ apc \in {"auth", "mounted"}
    /\ session' = NoSession
    /\ actor' = <<>>
    /\ authResult' = [call |-> "logout", ok |-> TRUE, error |-> "", email |-> <<>>,
                      password |-> <<>>]
    /\ UNCHANGED <<apc, users, plans, lastSet>>
    /\ UNCHANGED <<scriptVars, raceVars, appVars>>

\* lines 89-95: setCurrentPlan; lastSet keeps the tier under the email of
\* the user who logged in last
SetCurrentPlan ==
    /\ apc \in {"auth", "mounted"}
    /\ \E tier \in PlanTiers :
        /\ plans' = setCurrentPlan(users, session, plans, tier)
        /\ lastSet' = IF actor = <<>> THEN lastSet
                      ELSE [k \in DOMAIN lastSet \cup {actor} |->
                               IF k = actor THEN tier ELSE lastSet[k]]
        /\ authResult' = [call |-> "setCurrentPlan", ok |-> TRUE, error |-> "",
                          email |-> actor, password |-> <<>>]
    /\ UNCHANGED <<apc, users, session, actor>>
    /\ UNCHANGED <<scriptVars, raceVars, appVars>>

AuthNext ==
    \/ RegisterRequired
    \/ RegisterTaken
    \/ Register
    \/ Login
    \/ Logout
    \/ SetCurrentPlan

SpecAuth == AuthInit /\ [][AuthNext]_vars

(***************************************************************************)
(* App (src/frontend/src/App.tsx): the state of the component, the query   *)
(* string, and the effects of lines 275-329. app holds the useState        *)
(* values; rendered holds the values of the last render whose effects      *)
(* have run, which are the values the next effects compare their           *)
(* dependencies with.                                                      *)
(***************************************************************************)
\* lines 122-128: the initial useState values
DefaultApp ==
    [searchTerm |-> "", selectedDistrict |-> "all", selectedRating |-> "all",
     selectedType |-> "all", compareBuildings |-> <<>>, activeTab |-> "search",
     page |-> 1]

SearchTerms == {"", "x"}

DistrictOptions == {"all", "Bedok"}

RatingOptions == {"all", "Gold"}

TypeOptions == {"all", "Office"}

TabValues == {"search", "compare"}

\* the identifiers of the buildings on the page
BuildingIds == 1..MaxBuildings

NaN == -1

\* parseInt(v, 10) of a string without a sign: white space is skipped, the
\* longest prefix of digits is read, and there is NaN without one
RECURSIVE DigitPrefix(_)
DigitPrefix(s) ==
    IF s # <<>> /\ Head(s) \in Digits THEN <<Head(s)>> \o DigitPrefix(Tail(s)) ELSE <<>>

ParseInt(s) ==
    IF DigitPrefix(TrimLeft(s)) = <<>> THEN NaN ELSE DigitsValue(DigitPrefix(TrimLeft(s)))

\* compareBuildings.join(',')
JoinIds(ids) == Join([j \in 1..Len(ids) |-> NumberToString(ids[j])], <<",">>)

RECURSIVE DropNaN(_)
DropNaN(ns) ==
    IF ns = <<>> THEN <<>>
    ELSE IF Head(ns) = NaN THEN DropNaN(Tail(ns))
    ELSE <<Head(ns)>> \o DropNaN(Tail(ns))

\* lines 295-298: qp.compare.split(',').map(parseInt).filter(not NaN)
ParseIds(s) ==
    LET pieces == Split(s, {","})
    IN  DropNaN([j \in 1..Len(pieces) |-> ParseInt(pieces[j])])

\* lines 310-318: the query string the sync effect writes for the values s
ParamsOf(s) ==
    LET keys == (IF s.searchTerm # "" THEN {"q"} ELSE {})
                \cup (IF s.selectedDistrict # "all" THEN {"district"} ELSE {})
                \cup (IF s.selectedRating # "all" THEN {"rating"} ELSE {})
                \cup (IF s.selectedType # "all" THEN {"type"} ELSE {})
                \cup (IF s.activeTab # "" THEN {"tab"} ELSE {})
                \cup (IF Len(s.compareBuildings) > 0 THEN {"compare"} ELSE {})
                \cup (IF s.page > 1 THEN {"page"} ELSE {})
    IN  [k \in keys |->
            CASE k = "q" -> s.searchTerm
              [] k = "district" -> s.selectedDistrict
              [] k = "rating" -> s.selectedRating
              [] k = "type" -> s.selectedType
              [] k = "tab" -> s.activeTab
              [] k = "compare" -> JoinIds(s.compareBuildings)
              [] k = "page" -> NumberToString(s.page)]

NoParams == [k \in {} |-> ""]

\* lines 301-304: the page the init effect sets
PageFromUrl(s, qp) ==
    IF "page" \in DOMAIN qp
    THEN IF ParseInt(qp["page"]) = NaN THEN s.page
         ELSE IF ParseInt(qp["page"]) < 1 THEN 1 ELSE ParseInt(qp["page"])
    ELSE s.page

\* lines 294-300: the selection the init effect sets
CompareFromUrl(s, qp) ==
    IF "compare" \in DOMAIN qp THEN ParseIds(qp["compare"]) ELSE s.compareBuildings

\* lines 284-304: the values the init effect sets over the values s
FromUrl(s, qp) ==
    [searchTerm |-> IF "q" \in DOMAIN qp THEN qp["q"] ELSE s.searchTerm,
     selectedDistrict |-> IF "district" \in DOMAIN qp THEN qp["district"]
                          ELSE s.selectedDistrict,
     selectedRating |-> IF "rating" \in DOMAIN qp THEN qp["rating"] ELSE s.selectedRating,
     selectedType |-> IF "type" \in DOMAIN qp THEN qp["type"] ELSE s.selectedType,
     activeTab |-> IF "tab" \in DOMAIN qp THEN qp["tab"] ELSE s.activeTab,
     compareBuildings |-> CompareFromUrl(s, qp),
     page |-> PageFromUrl(s, qp)]

\* the dependencies of the page reset effect (line 278)
FiltersOf(s) == <<s.searchTerm, s.selectedDistrict, s.selectedRating, s.selectedType>>

\* lines 275-278: the page reset effect runs when one of its dependencies
\* differs from the render before
PageAfterRender(prev, s) == IF FiltersOf(s) # FiltersOf(prev) THEN 1 ELSE s.page

\* line 374: Infinity is a number no selection reaches
LimitOf(plan) == IF plan = "free" THEN 3 ELSE MaxBuildings + 1

RemoveId(ids, id) == SelectSeq(ids, LAMBDA x : x # id)

\* lines 372-380: toggleCompare, the selection it sets
toggleCompare(ids, id, plan) ==
    IF \E j \in 1..Len(ids) : ids[j] = id THEN RemoveId(ids, id)
    ELSE IF Len(ids) < LimitOf(plan) THEN Append(ids, id)
    ELSE ids

\* the query strings the application is opened with
OpenUrls ==
    {NoParams,
     [k \in {"compare"} |-> <<"1", ",", "2", ",", "3", ",", "4">>],
     [k \in {"tab"} |-> "compare"]}

\* the account in storage when the application is opened
StoredUser == [id |-> 1, email |-> <<"a">>, password |-> <<"p">>]

AppInit ==
    /\ MergeIdle
    /\ ImportIdle
    /\ CostIdle
    /\ GeoIdle
    /\ RaceIdle
    /\ apc = "open"
    /\ users = <<StoredUser>>
    /\ session \in {NoSession, StoredUser.id}
    /\ plans \in {NoPlans, [k \in {StoredUser.id} |-> "pro"]}
    /\ authResult = NoResult
    /\ actor = IF session = NoSession THEN <<>> ELSE StoredUser.email
    /\ lastSet = IF StoredUser.id \in DOMAIN plans
                 THEN [k \in {StoredUser.email} |-> plans[StoredUser.id]]
                 ELSE NoPlans
    /\ app = DefaultApp
    /\ rendered = DefaultApp
    /\ searchParams \in OpenUrls
    /\ linked = NoLink

\* the first render and its effects, in the order of their declaration: page
\* reset (line 277), init from the URL (lines 284-304), sync (lines 310-319)
\* with the values of this render
AppMount ==
    /\ apc = "open"
    /\ app' = FromUrl([app EXCEPT !.page = 1], searchParams)
    /\ rendered' = app
    /\ searchParams' = ParamsOf(app)
    /\ apc' = "mounted"
    /\ UNCHANGED <<users, session, plans, authResult, actor, lastSet, linked>>
    /\ UNCHANGED <<scriptVars, raceVars>>

\* a render after a state change, and the effects whose dependencies changed
AppRender ==
    /\ apc = "mounted"
    /\ app # rendered
    /\ app' = [app EXCEPT !.page = PageAfterRender(rendered, app)]
    /\ searchParams' = ParamsOf(app)
    /\ rendered' = app
    /\ UNCHANGED <<apc, users, session, plans, authResult, actor, lastSet, linked>>
    /\ UNCHANGED <<scriptVars, raceVars>>

Settled == apc = "mounted" /\ app = rendered

\* lines 515, 1191: the search box
SetSearchTerm ==
    /\ Settled
    /\ \E q \in SearchTerms : app' = [app EXCEPT !.searchTerm = q]
    /\ linked' = NoLink
    /\ UNCHANGED <<apc, users, session, plans, authResult, actor, lastSet, rendered,
                   searchParams>>
    /\ UNCHANGED <<scriptVars, raceVars>>

\* lines 521, 1197
SetSelectedDistrict ==
    /\ Settled
    /\ \E d \in DistrictOptions : app' = [app EXCEPT !.selectedDistrict = d]
    /\ linked' = NoLink
    /\ UNCHANGED <<apc, users, session, plans, authResult, actor, lastSet, rendered,
                   searchParams>>
    /\ UNCHANGED <<scriptVars, raceVars>>

\* lines 537, 1213
SetSelectedRating ==
    /\ Settled
    /\ \E r \in RatingOptions : app' = [app EXCEPT !.selectedRating = r]
    /\ linked' = NoLink
    /\ UNCHANGED <<apc, users, session, plans, authResult, actor, lastSet, rendered,
                   searchParams>>
    /\ UNCHANGED <<scriptVars, raceVars>>

\* lines 553, 1229
SetSelectedType ==
    /\ Settled
    /\ \E t \in TypeOptions : app' = [app EXCEPT !.selectedType = t]
    /\ linked' = NoLink
    /\ UNCHANGED <<apc, users, session, plans, authResult, actor, lastSet, rendered,
                   searchParams>>
    /\ UNCHANGED <<scriptVars, raceVars>>

\* lines 455, 966
SetActiveTab ==
    /\ Settled
    /\ \E t \in TabValues : app' = [app EXCEPT !.activeTab = t]
    /\ linked' = NoLink
    /\ UNCHANGED <<apc, users, session, plans, authResult, actor, lastSet, rendered,
                   searchParams>>
    /\ UNCHANGED <<scriptVars, raceVars>>

\* lines 682 and 691: the pagination buttons, with MaxPage pages of results
SetPage ==
    /\ Settled
    /\ \E p \in {app.page - 1, app.page + 1} :
        /\ 1 <= p /\ p <= MaxPage
        /\ app' = [app EXCEPT !.page = p]
    /\ linked' = NoLink
    /\ UNCHANGED <<apc, users, session, plans, authResult, actor, lastSet, rendered,
                   searchParams>>
    /\ UNCHANGED <<scriptVars, raceVars>>

\* lines 919, 1301: the Compare button of a building
ToggleCompare ==
    /\ Settled
    /\ \E id \in BuildingIds :
        app' = [app EXCEPT !.compareBuildings =
                   toggleCompare(@, id, getCurrentPlan(users, session, plans))]
    /\ linked' = NoLink
    /\ UNCHANGED <<apc, users, session, plans, authResult, actor, lastSet, rendered,
                   searchParams>>
    /\ UNCHANGED <<scriptVars, raceVars>>

\* the address bar's URL is opened again: a new App is mounted on the query
\* string the sync effect wrote; linked keeps the values it was written for
AppReopen ==
    /\ Settled
    /\ linked = NoLink
    /\ linked' = app
    /\ app' = DefaultApp
    /\ rendered' = DefaultApp
    /\ apc' = "open"
    /\ UNCHANGED <<users, session, plans, authResult, actor, lastSet, searchParams>>
    /\ UNCHANGED <<scriptVars, raceVars>>

\* the compare selection under logins, logouts and plan changes made while
\* App is on screen (localStorage is shared by the tabs of the browser)
AppNext ==
    \/ AppMount
    \/ AppRender
    \/ ToggleCompare
    \/ AppReopen
    \/ Login
    \/ Logout
    \/ SetCurrentPlan

SpecApp == AppInit /\ [][AppNext]_vars

\* the filters, the tab, the page and the selection of one visitor, and the
\* query string that follows them
LinkInit ==
    /\ AppInit
    /\ session = NoSession
    /\ plans = NoPlans
    /\ searchParams = NoParams

LinkNext ==
    \/ AppMount
    \/ AppRender
    \/ SetSearchTerm
    \/ SetSelectedDistrict
    \/ SetSelectedRating
    \/ SetSelectedType
    \/ SetActiveTab
    \/ SetPage
    \/ ToggleCompare
    \/ AppReopen

SpecLink == LinkInit /\ [][LinkNext]_vars

(***************************************************************************)
(* Properties of merge-json                                                *)
(***************************************************************************)

IdsOf(s) == {s[j].id : j \in 1..Len(s)}

Occurrences(s, id) == {j \in 1..Len(s) : s[j].id = id}

\* the positions of the records of `id` whose district is present and not "Unknown"
KnownOccurrences(s, id) == {j \in Occurrences(s, id) : s[j].district \notin {"", "Unknown"}}

MaxOf(S) == CHOOSE x \in S : \A y \in S : y <= x

OutputRecords(id) == {merged[j] : j \in Occurrences(merged, id)}

StrictlyAscending(s) == \A j \in 1..Len(s) : \A k \in 1..Len(s) : j < k => s[j].id < s[k].id

\* C1: for every identifier present in both inputs the output holds the chunk
\* record when the chunk record's district is present and not "Unknown", and
\* the base record, unchanged, otherwise. Where an input repeats the
\* identifier, "the chunk record" is the last one with such a district and
\* "the base record" the last one of the identifier.
C1_MergePrecedence ==
    mpc # "start" =>
        \A id \in IdsOf(base) \cap IdsOf(chunk) :
            OutputRecords(id) =
                { IF KnownOccurrences(chunk, id) # {}
                  THEN chunk[MaxOf(KnownOccurrences(chunk, id))]
                  ELSE base[MaxOf(Occurrences(base, id))] }

\* base "Unknown" with chunk "Bedok" gives "Bedok"; chunk "Unknown" keeps the base record
C1_Witness ==
    /\ mpc = "merged"
    /\ \E a \in 1..MaxId : \E b \in 1..MaxId :
        /\ a # b
        /\ base = <<[id |-> a, district |-> "Unknown"], [id |-> b, district |-> ""]>>
        /\ chunk = <<[id |-> a, district |-> "Bedok"], [id |-> b, district |-> "Unknown"]>>
        /\ OutputRecords(a) = {[id |-> a, district |-> "Bedok"]}
        /\ OutputRecords(b) = {[id |-> b, district |-> ""]}

\* C2: the identifiers of the output are the union of the identifiers of the
\* inputs, each appears once, and the record of an identifier that occurs in
\* one input only is a record of that input, unchanged.
C2_MergeCoverage ==
    mpc # "start" =>
        /\ IdsOf(merged) = IdsOf(base) \cup IdsOf(chunk)
        /\ \A id \in IdsOf(merged) : Cardinality(Occurrences(merged, id)) = 1
        /\ \A id \in IdsOf(base) \ IdsOf(chunk) :
               OutputRecords(id) = {base[MaxOf(Occurrences(base, id))]}
        /\ \A id \in IdsOf(chunk) \ IdsOf(base) :
               /\ OutputRecords(id) \subseteq {chunk[j] : j \in Occurrences(chunk, id)}
               /\ Cardinality(Occurrences(chunk, id)) = 1 =>
                      OutputRecords(id) = {chunk[MaxOf(Occurrences(chunk, id))]}

C2_Witness ==
    /\ mpc = "merged"
    /\ \E a \in 1..MaxId : \E b \in 1..MaxId :
        /\ a # b
        /\ IdsOf(base) = {a}
        /\ chunk = <<[id |-> b, district |-> "Unknown"]>>
        /\ IdsOf(merged) = {a, b}
        /\ OutputRecords(b) = {[id |-> b, district |-> "Unknown"]}

\* C3: the output is sorted in strictly ascending order of identifier, for
\* any order of the records in the inputs.
C3_MergeSorted ==
    /\ mpc # "start" => StrictlyAscending(merged)
    /\ mpc \in {"againChunk", "againBase"} => StrictlyAscending(again)

C3_Witness ==
    /\ mpc = "merged"
    /\ Len(base) = 2
    /\ base[1].id > base[2].id
    /\ Len(merged) = 2
    /\ merged[1].id < merged[2].id

\* C4 as stated: merging any array A with A yields A, same records in the
\* same order.
C4_MergeSelfAnyArray ==
    (mpc = "merged" /\ chunk = base) => merged = base

\* C4 as amended: merging A with A yields A when the identifiers of A are
\* strictly ascending (sorted, none repeated).
C4_MergeSelfAscending ==
    (mpc = "merged" /\ chunk = base /\ StrictlyAscending(base)) => merged = base

C4_Witness ==
    /\ mpc = "merged"
    /\ chunk = base
    /\ Len(base) = 2
    /\ base[1].id < base[2].id
    /\ base[1].district = "Unknown"
    /\ merged = base

\* C5: merge is idempotent on its second argument:
\* merge(merge(A, B), B) = merge(A, B), also for inputs that repeat identifiers.
C5_MergeIdempotentChunk ==
    mpc = "againChunk" => again = merged

C5_Witness ==
    /\ mpc = "againChunk"
    /\ Len(chunk) = 2
    /\ chunk[1].id = chunk[2].id
    /\ chunk[1].district = "Bedok"
    /\ chunk[2].district = "Unknown"
    /\ chunk[1].id \in IdsOf(base)
    /\ again = merged

\* C6: merge(A, merge(A, B)) = merge(A, B), also for inputs that repeat identifiers.
C6_MergeIdempotentBase ==
    mpc = "againBase" => again = merged

C6_Witness ==
    /\ mpc = "againBase"
    /\ Len(base) = 2
    /\ base[1].id = base[2].id
    /\ base[1].district # base[2].district
    /\ IdsOf(chunk) \ IdsOf(base) # {}
    /\ again = merged

(***************************************************************************)
(* Properties of convert-csv                                               *)
(***************************************************************************)

\* the numeric arguments, read off argv
ArgOffset == IF argv.offsetArg.kind = "num" THEN argv.offsetArg.n ELSE 0

RowsFromOffset == IF Len(csv) > ArgOffset THEN Len(csv) - ArgOffset ELSE 0

\* the number of rows that limit and offset select
SelectedCount ==
    CASE argv.limitArg.kind = "all" -> RowsFromOffset
      [] argv.limitArg.kind = "num" ->
            IF argv.limitArg.n < RowsFromOffset THEN argv.limitArg.n ELSE RowsFromOffset
      [] OTHER -> IF DefaultLimit < RowsFromOffset THEN DefaultLimit ELSE RowsFromOffset

\* C7: the importer emits one record per row selected by limit and offset,
\* in input order; the record at position j (from 1) comes from row
\* offset + j of the CSV and has identifier offset + j, so the identifiers
\* are the range offset+1 .. offset+n and none is shared. Offset and limit
\* are non-negative integers.
C7_OneRecordPerSelectedRow ==
    /\ ipc \in {"loop", "sleeping", "fetching", "persisted", "done", "failed"} =>
        /\ Len(out) <= SelectedCount
        /\ \A j \in 1..Len(out) :
            /\ out[j].id = ArgOffset + j
            /\ out[j].address = <<"Singapore ">> \o Trim(csv[ArgOffset + j].Postal_Code)
            /\ Trim(csv[ArgOffset + j].Project_Name) # <<>> =>
                   out[j].name = Trim(csv[ArgOffset + j].Project_Name)
        /\ \A j \in 1..Len(out) : \A k \in 1..Len(out) : out[j].id = out[k].id => j = k
    /\ ipc \in {"persisted", "done"} => Len(out) = SelectedCount
    /\ ipc = "done" => outFile = [exists |-> TRUE, content |-> out]

C7_Witness ==
    /\ ipc = "done"
    /\ Len(csv) = 2
    /\ argv.offsetArg = [kind |-> "num", n |-> 1]
    /\ argv.limitArg = [kind |-> "num", n |-> 1]
    /\ Len(outFile.content) = 1
    /\ outFile.content[1].id = 2
    /\ outFile.content[1].address = <<"Singapore ">> \o Trim(csv[2].Postal_Code)

\* C8: estimatedMonthlyCost is round(energyIntensity * totalFloorArea / 12 * 0.25)
\* plus round(totalFloorArea * 10), each term rounded on its own: a term t is
\* the rounding of x when t - 1/2 <= x < t + 1/2. totalFloorArea is counted in
\* quarters, so the terms round energyIntensity * totalFloorArea / 192 and
\* 5 * totalFloorArea / 2.
C8_MonthlyCost ==
    cpc = "emitted" =>
        /\ estimatedMonthlyCost = electricityMonthly + rentalMonthly
        /\ 192 * (2 * electricityMonthly - 1) <= 2 * energyIntensity * totalFloorArea
        /\ 2 * energyIntensity * totalFloorArea < 192 * (2 * electricityMonthly + 1)
        /\ 2 * rentalMonthly - 1 <= 5 * totalFloorArea
        /\ 5 * totalFloorArea < 2 * rentalMonthly + 1
        /\ (energyIntensity = 150 /\ totalFloorArea = 4 * 40000) =>
               estimatedMonthlyCost = 525000

\* energyIntensity 150 and totalFloorArea 40000 give 125000 + 400000
C8_Witness ==
    /\ cpc = "emitted"
    /\ energyIntensity = 150
    /\ totalFloorArea = 4 * 40000
    /\ electricityMonthly = 125000
    /\ rentalMonthly = 400000
    /\ estimatedMonthlyCost = 525000

\* the cache key as the claim words it
ClaimedKey ==
    IF CurrentPostal # <<>> THEN <<"POSTAL:">> \o CurrentPostal
    ELSE <<"NAME:">> \o ToUpperCase(CurrentName)

AtCachedRecord ==
    /\ ipc = "loop"
    /\ i < Len(sliced)
    /\ ~skipGeocode
    /\ ClaimedKey \in DOMAIN cache

\* C9: a record whose cache key is in the cache, as a positive or a negative
\* entry, is emitted in one step with no sleep, no network call and no change
\* of the cache; a positive entry gives it the stored coordinates and
\* district, a negative one leaves it the defaults.
C9_CacheHitSkipsNetwork ==
    [][AtCachedRecord =>
        /\ netLog' = netLog
        /\ cache' = cache
        /\ ipc' = "loop"
        /\ i' = i + 1
        /\ Len(out') = Len(out) + 1
        /\ SubSeq(out', 1, Len(out)) = out
        /\ out'[Len(out')].id = CurrentId
        /\ IF "miss" \in DOMAIN cache[ClaimedKey]
           THEN /\ out'[Len(out')].district = "Unknown"
                /\ out'[Len(out')].coordinates = <<DefaultLon, DefaultLat>>
           ELSE /\ out'[Len(out')].district = cache[ClaimedKey].district
                /\ out'[Len(out')].coordinates =
                       <<cache[ClaimedKey].lon, cache[ClaimedKey].lat>>
    ]_vars

\* the second record was served from the entry that the first record's
\* lookup wrote in this run
C9_Witness ==
    /\ ipc = "loop"
    /\ ~cacheFile.exists
    /\ Len(out) = 2
    /\ out[2].district = "Bedok"
    /\ out[2].coordinates = <<GeoBedok.lon, GeoBedok.lat>>
    /\ out[1].name # out[2].name
    /\ Len(netLog) = 4
    /\ \A e \in 2..Len(netLog) : netLog[e].id = out[1].id

\* C10: within a run an entry of the cache is never written again: every key
\* keeps the entry it has, so a stored result stays to the end of the run, a
\* positive entry is never replaced by a negative one, and a negative entry
\* is written only for a key that has none.
C10_CacheEntriesKept ==
    [][\A k \in DOMAIN cache :
            /\ k \in DOMAIN cache'
            /\ cache'[k] = cache[k]
    ]_vars

\* a negative entry written in this run is still there when the run ends,
\* after a later lookup for another key found a result
C10_Witness ==
    /\ ipc = "done"
    /\ cacheFile.exists
    /\ Len(out) = 2
    /\ Len(netLog) = 8
    /\ DOMAIN cache = {PostalKey, NameKey}
    /\ cache[PostalKey] = MissEntry
    /\ cache[NameKey] = GeoBedok
    /\ netLog[2].id = 1
    /\ out[1].address = <<"Singapore ", "1", "2", "3", "4", "5", "6">>
    /\ cacheFile.content = cache

\* the record that a step appends to out
Emitted == out'[Len(out')]

\* the last event on record after a step
LastEvent == netLog'[Len(netLog')]

\* a step that ends the lookup of the current record
LookupEnds == ipc \in {"sleeping", "fetching"} /\ ipc' = "loop"

\* C11: a lookup is made only for a key that the cache lacks, and when it
\* ends without error the cache holds the key: the result of the service when
\* it found a match, and the record takes its coordinates and district; the
\* negative marker when it found none (or had nothing to ask), and the
\* record keeps the defaults. No other key changes.
C11_LookupResultCached ==
    [][LookupEnds =>
        /\ ClaimedKey \notin DOMAIN cache
        /\ Len(out') = Len(out) + 1
        /\ Emitted.id = CurrentId
        /\ (ipc = "fetching" /\ LastEvent.kind = "found") =>
               /\ DOMAIN cache' = DOMAIN cache \cup {ClaimedKey}
               /\ cache'[ClaimedKey] = LastEvent.geo
               /\ DOMAIN cache'[ClaimedKey] = {"lon", "lat", "district"}
               /\ Emitted.coordinates = <<LastEvent.geo.lon, LastEvent.geo.lat>>
               /\ Emitted.district = LastEvent.geo.district
        /\ (ipc = "sleeping" \/ LastEvent.kind = "empty") =>
               /\ DOMAIN cache' = DOMAIN cache \cup {ClaimedKey}
               /\ cache'[ClaimedKey] = [miss |-> TRUE, district |-> "Unknown"]
               /\ Emitted.coordinates = <<DefaultLon, DefaultLat>>
               /\ Emitted.district = "Unknown"
    ]_vars

\* one run in which the service found a match for the first record and none
\* for the second
C11_Witness ==
    /\ ipc = "loop"
    /\ ~cacheFile.exists
    /\ Len(out) = 2
    /\ Len(netLog) = 7
    /\ netLog[4].kind = "found"
    /\ netLog[7].kind = "empty"
    /\ DOMAIN cache = {PostalKey, NameKey}
    /\ cache[PostalKey] = netLog[4].geo
    /\ out[1].coordinates = <<netLog[4].geo.lon, netLog[4].geo.lat>>
    /\ cache[NameKey] = MissEntry
    /\ out[2].coordinates = DefaultCoords

\* a later run: the command has been started again
InLaterRun == \E e \in 1..Len(netLog) : netLog[e].kind = "run"

IsHit(entry) == DOMAIN entry = {"lon", "lat", "district"}

\* the run has read and parsed the cache file
FileLoaded ==
    /\ ipc # "start"
    /\ LET loads == {e \in 1..Len(netLog) : netLog[e].kind = "load"}
       IN  loads # {} /\ netLog[MaxOf(loads)].ok

\* the step that writes the cache file, or fails to
PersistStep == ipc = "loop" /\ ipc' = "persisted"

\* a later run is at a record whose key has a positive entry in the cache file
AtStoredRecord ==
    /\ InLaterRun
    /\ ipc = "loop"
    /\ i < Len(sliced)
    /\ ~skipGeocode
    /\ cacheFile.exists
    /\ ClaimedKey \in DOMAIN cacheFile.content
    /\ IsHit(cacheFile.content[ClaimedKey])

ServedFromFile ==
    /\ netLog' = netLog
    /\ Len(out') = Len(out) + 1
    /\ Emitted.id = CurrentId
    /\ Emitted.coordinates = <<cacheFile.content[ClaimedKey].lon,
                               cacheFile.content[ClaimedKey].lat>>
    /\ Emitted.district = cacheFile.content[ClaimedKey].district

FileEntriesKept ==
    \A k \in DOMAIN cacheFile.content :
        /\ cacheFile'.exists
        /\ k \in DOMAIN cacheFile'.content
        /\ cacheFile'.content[k] = cacheFile.content[k]

EventsOf(kind) == {e \in 1..Len(netLog) : netLog[e].kind = kind}

\* the position in out of the record with identifier id
PositionOf(id) == id - offset

\* C13: a request that fails does not end the run. The record it was made
\* for is emitted in the same step with district "Unknown" and the default
\* coordinates; the records that follow are emitted as their own lookups
\* decide, a later match giving its record the coordinates and district
\* found; the run ends in failure only when the CSV or the output file fails,
\* and when it is done the output file holds one record per selected row.
C13_FailedLookupIsOneMiss ==
    /\ \A e \in EventsOf("error") :
        /\ ipc \in {"loop", "sleeping", "fetching", "persisted", "done", "failed"}
        /\ PositionOf(netLog[e].id) \in 1..Len(out)
        /\ out[PositionOf(netLog[e].id)].id = netLog[e].id
        /\ out[PositionOf(netLog[e].id)].district = "Unknown"
        /\ out[PositionOf(netLog[e].id)].coordinates = <<DefaultLon, DefaultLat>>
        /\ ipc = "failed" => Len(out) = SelectedCount
        /\ \A f \in EventsOf("found") :
            /\ PositionOf(netLog[f].id) \in 1..Len(out)
            /\ out[PositionOf(netLog[f].id)].district = netLog[f].geo.district
            /\ out[PositionOf(netLog[f].id)].coordinates =
                   <<netLog[f].geo.lon, netLog[f].geo.lat>>
    /\ ipc \in {"persisted", "done"} => Len(out) = SelectedCount
    /\ ipc = "done" => outFile = [exists |-> TRUE, content |-> out]

\* the request for the first of two records failed, the one for the second
\* found a match, and the output file has both
C13_Witness ==
    /\ ipc = "done"
    /\ Len(netLog) = 8
    /\ netLog[4].kind = "error"
    /\ netLog[7].kind = "found"
    /\ Len(outFile.content) = 2
    /\ outFile.content[1].district = "Unknown"
    /\ outFile.content[1].coordinates = DefaultCoords
    /\ outFile.content[2].district = netLog[7].geo.district
    /\ outFile.content[2].coordinates = <<netLog[7].geo.lon, netLog[7].geo.lat>>
    /\ DOMAIN cache = {makeCacheKey(PostalOf(csv[2]), NameOf(csv[2], 2))}

\* the answers on record: requests that have returned or failed
Answers == EventsOf("error") \cup EventsOf("empty") \cup EventsOf("found")

\* C14: the requests sent and not yet answered number one while main waits
\* for the service and none otherwise; the answer to a request is the next
\* event after it, so every request made before a lookup starts has returned
\* or failed by then; lookups start in ascending order of record, and while
\* one is under way all records before its own are in out, in input order,
\* and no later one.
C14_OneRequestInFlight ==
    /\ Cardinality(EventsOf("call")) - Cardinality(Answers) =
           IF ipc = "fetching" THEN 1 ELSE 0
    /\ \A c \in EventsOf("call") :
        /\ c < Len(netLog) => (c + 1 \in Answers /\ netLog[c + 1].id = netLog[c].id)
        /\ \A e \in EventsOf("sleep") : c < e => c + 1 < e
    /\ \A e \in EventsOf("sleep") : \A f \in EventsOf("sleep") :
            e < f => netLog[e].id < netLog[f].id
    /\ ipc \in {"sleeping", "fetching"} =>
            netLog[Len(netLog)].id = ArgOffset + Len(out) + 1
    /\ \A j \in 1..Len(out) : out[j].id = ArgOffset + j

\* the second of two lookups is waiting for its answer, the first has its own
C14_Witness ==
    /\ ipc = "fetching"
    /\ Len(out) = 1
    /\ Len(netLog) = 6
    /\ netLog[3].kind = "call"
    /\ netLog[4].kind \in {"error", "empty", "found"}
    /\ netLog[4].id = out[1].id
    /\ netLog[6].kind = "call"
    /\ netLog[6].id = out[1].id + 1

\* the delay that the environment of the run asks for, in milliseconds
ConfiguredDelay ==
    CASE argv.delayEnv = <<>> -> 1200
      [] argv.delayEnv = <<"5">> -> 5

\* C15: the event right before a network call is the rate-limit sleep of
\* the same record, of GEOCODE_DELAY_MS milliseconds and of 1200 when that is
\* not set; the call is on record only once main is past the sleep; and
\* between any two calls there is a sleep.
C15_DelayBeforeEachCall ==
    /\ \A c \in EventsOf("call") :
        /\ c - 1 \in EventsOf("sleep")
        /\ netLog[c - 1].id = netLog[c].id
        /\ netLog[c - 1].ms = ConfiguredDelay
        /\ \A d \in EventsOf("call") : c < d => \E e \in EventsOf("sleep") : c < e /\ e < d
    /\ ipc = "sleeping" => Len(netLog) \in EventsOf("sleep")
    /\ ipc = "fetching" => Len(netLog) \in EventsOf("call")

\* two calls of a run with GEOCODE_DELAY_MS=5, each after its own sleep
C15_Witness ==
    /\ argv.delayEnv = <<"5">>
    /\ Len(netLog) = 7
    /\ netLog[2].kind = "sleep" /\ netLog[2].ms = 5
    /\ netLog[3].kind = "call" /\ netLog[3].id = netLog[2].id
    /\ netLog[5].kind = "sleep" /\ netLog[5].ms = 5 /\ netLog[5].id # netLog[2].id
    /\ netLog[6].kind = "call" /\ netLog[6].id = netLog[5].id

\* ", Singapore", the end of every query
SingaporeSuffix == <<", Singapore">>

\* the trimmed arguments
TrimmedPostal == Trim(postalArg)

TrimmedName == Trim(nameArg)

SixDigitPostal ==
    /\ Len(TrimmedPostal) = 6
    /\ \A j \in 1..6 : TrimmedPostal[j] \in {"0", "1", "2", "3", "4", "5", "6", "7", "8", "9"}

\* C16: once geocodePostalOrName has acted, the requests sent are: the one
\* for "<postal>, Singapore" when the trimmed postal code is six digits, and
\* no other, whatever the service answers; else the one for "<name>,
\* Singapore" when the trimmed name is not empty; else none, and the call has
\* returned null. A value returned from an answer with results has the
\* coordinates and the district of the first result.
C16_LookupPriority ==
    gpc \in {"fetching", "returned", "threw"} =>
        /\ IF SixDigitPostal THEN requests = <<TrimmedPostal \o SingaporeSuffix>>
           ELSE IF TrimmedName # <<>> THEN requests = <<TrimmedName \o SingaporeSuffix>>
           ELSE requests = <<>> /\ gpc = "returned" /\ geo = NullGeo
        /\ (gpc = "returned" /\ requests # <<>>) =>
             IF service.data = <<>> THEN geo = NullGeo
             ELSE /\ geo.lat = service.data[1].lat
                  /\ geo.lon = service.data[1].lon
                  /\ service.data[1] = ResultBedok => geo.district = <<"B", "e", "d", "o", "k">>
                  /\ service.data[1] = ResultYishun =>
                         geo.district = <<"Y", "i", "s", "h", "u", "n">>

\* a six-digit postal code with a name: one request, for the postal code, and
\* of the two results of the answer the first one returned
C16_Witness ==
    /\ gpc = "returned"
    /\ postalArg = <<" ", "1", "2", "3", "4", "5", "6", " ">>
    /\ nameArg = <<"a", "b">>
    /\ requests = << <<"1", "2", "3", "4", "5", "6", ", Singapore">> >>
    /\ service.data = <<ResultYishun, ResultBedok>>
    /\ geo = [lat |-> 1430000, lon |-> 103835000, district |-> <<"Y", "i", "s", "h", "u", "n">>]

(***************************************************************************)
(* Properties of pickDistrict                                              *)
(***************************************************************************)

\* the order of the address fields
ClaimedFieldOrder ==
    <<"city_district", "suburb", "neighbourhood", "municipality", "quarter", "borough",
      "town", "village", "county", "region", "state_district">>

\* the call has returned a value made from the first result of the answer
DistrictResolved == gpc = "returned" /\ requests # <<>> /\ service.data # <<>>

TheAddress == service.data[1].address

\* the value of the j-th field, <<>> when the address lacks it
FieldValue(j) ==
    IF ClaimedFieldOrder[j] \in DOMAIN TheAddress THEN TheAddress[ClaimedFieldOrder[j]]
    ELSE <<>>

\* what a field value resolves to: the alias "Marina South" stands for
\* "Marina Bay", "bedok" is on the allow-list but for its case, the other
\* values of the model are generic or unlisted
ClaimedMatch(v) ==
    CASE v = <<"M", "a", "r", "i", "n", "a", " ", "S", "o", "u", "t", "h">> ->
            <<"M", "a", "r", "i", "n", "a", " ", "B", "a", "y">>
      [] v = <<"b", "e", "d", "o", "k">> -> <<"b", "e", "d", "o", "k">>
      [] OTHER -> <<>>

MatchingFields == {j \in 1..Len(ClaimedFieldOrder) : ClaimedMatch(FieldValue(j)) # <<>>}

MinOf(S) == CHOOSE x \in S : \A y \in S : x <= y

\* C17: when some address field holds a value that, canonicalised, is on the
\* allow-list in any case, the district is the canonicalised value of the
\* first such field in the order city_district, suburb, neighbourhood,
\* municipality, quarter, borough, town, village, county, region,
\* state_district, whatever the later fields, the display name and the hint
\* name hold; {suburb: "Marina South"} gives "Marina Bay".
C17_FirstMatchingFieldWins ==
    (DistrictResolved /\ MatchingFields # {}) =>
        geo.district = ClaimedMatch(FieldValue(MinOf(MatchingFields)))

\* suburb "Marina South" wins over town "bedok" and over the "Yishun" of the
\* display name and the "Orchard" of the hint name
C17_Witness ==
    /\ DistrictResolved
    /\ DOMAIN TheAddress = {"suburb", "town"}
    /\ TheAddress["suburb"] = <<"M", "a", "r", "i", "n", "a", " ", "S", "o", "u", "t", "h">>
    /\ TheAddress["town"] = <<"b", "e", "d", "o", "k">>
    /\ service.data[1].display_name =
           <<"F", "o", "o", ",", " ", "Y", "i", "s", "h", "u", "n", ",", " ", "S", "i", "n",
             "g", "a", "p", "o", "r", "e">>
    /\ nameArg = <<"M", "a", "l", "l", " ", "(", "O", "r", "c", "h", "a", "r", "d", ")">>
    /\ geo.district = <<"M", "a", "r", "i", "n", "a", " ", "B", "a", "y">>

\* the allow-listed token of a display name, <<>> when it has none
DisplayMatch(d) ==
    IF d = <<"F", "o", "o", ",", " ", "Y", "i", "s", "h", "u", "n", ",", " ", "S", "i", "n",
             "g", "a", "p", "o", "r", "e">>
    THEN <<"Y", "i", "s", "h", "u", "n">>
    ELSE <<>>

\* the same for a hint name: "CBD" is an alias of "Downtown Core"
HintMatch(h) ==
    CASE h = <<"M", "a", "l", "l", " ", "(", "O", "r", "c", "h", "a", "r", "d", ")">> ->
            <<"O", "r", "c", "h", "a", "r", "d">>
      [] h = <<"C", "B", "D", " ", "&", " ", "B", "a", "r">> ->
            <<"D", "o", "w", "n", "t", "o", "w", "n", " ", "C", "o", "r", "e">>
      [] OTHER -> <<>>

\* the fields that hold a value other than the generic "Singapore"
NonGenericFields ==
    {j \in 1..Len(ClaimedFieldOrder) :
        FieldValue(j) # <<>> /\ FieldValue(j) # <<"S", "i", "n", "g", "a", "p", "o", "r", "e">>}

\* a value without the white space around it and with one space for each run
\* of it inside
ClaimedNormal(v) ==
    IF v = <<" ", "K", "a", "m", "p", "o", "n", "g", " ", " ", "G", "l", "a", "m">>
    THEN <<"K", "a", "m", "p", "o", "n", "g", " ", "G", "l", "a", "m">>
    ELSE v

\* C18 as stated: with no matching address field the district is the first
\* allow-listed token of the display name, else of the hint name, else the
\* first non-generic address-field value exactly as the address gives it,
\* else "Unknown".
C18_FallbackValueAsGiven ==
    (DistrictResolved /\ MatchingFields = {}) =>
        geo.district =
            IF DisplayMatch(service.data[1].display_name) # <<>>
            THEN DisplayMatch(service.data[1].display_name)
            ELSE IF HintMatch(nameArg) # <<>> THEN HintMatch(nameArg)
            ELSE IF NonGenericFields # {} THEN FieldValue(MinOf(NonGenericFields))
            ELSE <<"U", "n", "k", "n", "o", "w", "n">>

\* C18: with no matching address field the district is the first
\* allow-listed token of the display name (split on commas), else of the hint
\* name (split on , & / ( ) -), canonicalised as the fields are; else the
\* first non-generic address-field value, trimmed and with every run of white
\* space made one space; else "Unknown".
C18_FallbackValueNormalized ==
    (DistrictResolved /\ MatchingFields = {}) =>
        geo.district =
            IF DisplayMatch(service.data[1].display_name) # <<>>
            THEN DisplayMatch(service.data[1].display_name)
            ELSE IF HintMatch(nameArg) # <<>> THEN HintMatch(nameArg)
            ELSE IF NonGenericFields # {}
                 THEN ClaimedNormal(FieldValue(MinOf(NonGenericFields)))
            ELSE <<"U", "n", "k", "n", "o", "w", "n">>

\* {city_district: "Singapore"} and nothing else to go by gives "Unknown"
C18_Witness ==
    /\ DistrictResolved
    /\ DOMAIN TheAddress = {"city_district"}
    /\ TheAddress["city_district"] = <<"S", "i", "n", "g", "a", "p", "o", "r", "e">>
    /\ service.data[1].display_name = <<>>
    /\ nameArg = <<>>
    /\ geo.district = <<"U", "n", "k", "n", "o", "w", "n">>

\* the write of the cache file has failed in this run
PersistFailed ==
    LET writes == EventsOf("persist")
    IN  writes # {} /\ ~netLog[MaxOf(writes)].ok

\* a step in which the write of the cache file is attempted and fails
PersistFailsStep ==
    /\ Len(netLog') = Len(netLog) + 1
    /\ LastEvent.kind = "persist"
    /\ ~LastEvent.ok

\* C19: the step in which the write of the cache file fails takes main on to
\* the write of the output file, with out holding one record per selected
\* row and the cache file as it was; the next step, unless the output file
\* itself cannot be written, writes out to the output file and ends the run
\* without error.
C19_CacheWriteFailureSwallowed ==
    [][/\ PersistFailsStep =>
            /\ ipc' = "persisted"
            /\ out' = out
            /\ Len(out) = SelectedCount
            /\ cacheFile' = cacheFile
       /\ (ipc = "persisted" /\ PersistFailed /\ ipc' # "failed") =>
            /\ ipc' = "done"
            /\ outFile' = [exists |-> TRUE, content |-> out]
            /\ Len(out) = SelectedCount
    ]_vars

\* a run of two lookups could not write the cache file, and wrote both
\* records to the output file
C19_Witness ==
    /\ ipc = "done"
    /\ PersistFailed
    /\ ~cacheFile.exists
    /\ DOMAIN cache = {PostalKey, NameKey}
    /\ Len(out) = 2
    /\ outFile = [exists |-> TRUE, content |-> out]

(***************************************************************************)
(* Properties of the two scripts' argument checks                          *)
(***************************************************************************)
\* the importer was started without csvPath or without outPath
ImporterLacksArgs == ipc # "idle" /\ (~argv.csvPath \/ ~argv.outPath)

\* the merger was started without basePath, chunkPath or outPath
MergerLacksArgs ==
    mpc # "idle" /\ (~margv.basePath \/ ~margv.chunkPath \/ ~margv.outPath)

\* C20: the importer started without csvPath or outPath makes one step, to
\* the usage exit, having read neither the CSV file nor the cache file and
\* written neither the output file nor the cache file; the merger started
\* without one of basePath, chunkPath and outPath makes one step, to the
\* usage exit, having merged and written nothing.
C20_MissingArgumentsExit ==
    [][/\ ImporterLacksArgs =>
            /\ ipc = "start"
            /\ ipc' = "usage"
            /\ sliced' = <<>> /\ out' = <<>>
            /\ cache' = EmptyCache /\ netLog' = <<>>
            /\ outFile' = NoFile
            /\ cacheFile' = cacheFile
       /\ MergerLacksArgs =>
            /\ mpc = "start"
            /\ mpc' = "usage"
            /\ merged' = <<>> /\ again' = <<>>
    ]_vars

\* the importer, given a CSV file with a row and a cache file with entries
\* but no outPath, has left by the usage exit
C20_Witness ==
    /\ ipc = "usage"
    /\ argv.csvPath /\ ~argv.outPath
    /\ csv # <<>>
    /\ cacheFile.exists /\ cacheFile.content # EmptyCache
    /\ outFile = NoFile
    /\ netLog = <<>>

\* the merger has all three arguments and one of its inputs cannot be read
\* or is not JSON
MergerInputBad ==
    /\ mpc # "idle"
    /\ margv.basePath /\ margv.chunkPath /\ margv.outPath
    /\ minputs.base # "ok" \/ minputs.chunk # "ok"

\* C21: every step of the merger that changes the file at <out> is taken
\* with both inputs read and parsed; with an input that is unreadable or
\* malformed the only step is the one to the error exit, and it leaves the
\* file at <out> as it was, with nothing merged.
C21_OutputOnlyAfterBothInputs ==
    [][/\ mergedFile' # mergedFile =>
            minputs.base = "ok" /\ minputs.chunk = "ok"
       /\ MergerInputBad =>
            /\ mpc = "start"
            /\ mpc' = "failed"
            /\ mergedFile' = mergedFile
            /\ merged' = <<>>
    ]_vars

\* the merger, given a readable base with a record and a malformed chunk,
\* has left by the error exit and there is no file at <out>
C21_Witness ==
    /\ mpc = "failed"
    /\ minputs = [base |-> "ok", chunk |-> "malformed"]
    /\ base # <<>>
    /\ mergedFile = NoFile

(***************************************************************************)
(* Properties of two runs of convert-csv at the same time                  *)
(***************************************************************************)
\* run r takes the step
StepOf(r) == runs'[r] # runs[r]

\* C22: a run changes its cache from the file in its first step only, and
\* that step leaves the file alone; the steps at its records leave the file
\* alone and only add to its cache; its last step, when the write succeeds,
\* makes the file exactly its cache, whatever the file held, and no step of
\* a run changes the cache of the other run.
C22_ReadOnceWriteWhole ==
    [][\A r \in Runs : StepOf(r) =>
        /\ \A q \in Runs \ {r} : runs'[q] = runs[q]
        /\ runs[r].pc = "start" =>
              /\ sharedFile' = sharedFile
              /\ runs'[r].cache \in {sharedFile.content, EmptyCache}
        /\ (runs[r].pc = "loop" /\ runs'[r].pc = "loop") =>
              /\ sharedFile' = sharedFile
              /\ \A k \in DOMAIN runs[r].cache :
                    k \in DOMAIN runs'[r].cache /\ runs'[r].cache[k] = runs[r].cache[k]
              /\ DOMAIN runs'[r].cache \subseteq DOMAIN runs[r].cache \cup {RaceKey(r)}
        /\ runs'[r].pc = "persisted" =>
              /\ runs'[r].cache = runs[r].cache
              /\ sharedFile' = IF runs'[r].written
                               THEN [exists |-> TRUE, content |-> runs[r].cache]
                               ELSE sharedFile
    ]_vars

\* a lost update: both runs have loaded the file, each has looked up a key of
\* its own and written the file with success, and the entry of run 1 is not
\* in the file
C22_Witness ==
    /\ \A r \in Runs : runs[r].pc = "persisted" /\ runs[r].written
    /\ runs[1].added = {PostalKey}
    /\ runs[2].added = {NameKey}
    /\ PostalKey \in DOMAIN runs[1].cache
    /\ PostalKey \notin DOMAIN sharedFile.content
    /\ NameKey \in DOMAIN sharedFile.content

\* C23: in a run started with the skip flag, no sleep and no network call
\* is on record, the cache is as it was loaded (what the cache file holds,
\* or empty), every record emitted has district "Unknown", the default
\* coordinates and the identifier offset + j, and the run ends with one
\* record per selected row, the count that limit and offset give without
\* the flag.
C23_SkipFlagBypassesGeocoding ==
    (ipc # "idle" /\ argv.skipArg = "skip") =>
        /\ \A e \in 1..Len(netLog) : netLog[e].kind \in {"load", "persist"}
        /\ cache \in {cacheFile.content, EmptyCache}
        /\ \A j \in 1..Len(out) :
            /\ out[j].district = "Unknown"
            /\ out[j].coordinates = <<DefaultLon, DefaultLat>>
            /\ out[j].id = ArgOffset + j
        /\ ipc \in {"persisted", "done"} => Len(out) = SelectedCount

\* a run with the skip flag has ended; it had loaded a cache with a positive
\* entry for the key of its first record, and emitted two default records
C23_Witness ==
    /\ ipc = "done"
    /\ argv.skipArg = "skip"
    /\ Len(out) = 2
    /\ PostalKey \in DOMAIN cache
    /\ cache[PostalKey] = GeoBedok
    /\ makeCacheKey(PostalOf(csv[1]), out[1].name) = PostalKey
    /\ out[1].district = "Unknown"
    /\ outFile = [exists |-> TRUE, content |-> out]

\* the cache key of the record with identifier id, which comes from row id
\* of the CSV
KeyOfId(id) == makeCacheKey(PostalOf(csv[id]), NameOf(csv[id], id))

\* every lookup made so far for key k, in this run or the one before, has
\* ended in an error, and there was one
ErrorsOnly(k) ==
    /\ \E e \in EventsOf("error") : KeyOfId(netLog[e].id) = k
    /\ \A e \in EventsOf("empty") \cup EventsOf("found") : KeyOfId(netLog[e].id) # k

\* C24: a lookup that ends in an error leaves the cache as it was; a key
\* whose lookups have all ended in errors is neither in the cache nor in
\* the cache file, and a run that comes to a record with such a key, geocoding
\* not skipped, starts the sleep of a new lookup for that record and then
\* sends its request.
C24_ErrorIsNotCached ==
    [][/\ (Len(netLog') = Len(netLog) + 1 /\ LastEvent.kind = "error") => cache' = cache
       /\ \A id \in 1..Len(csv) : ErrorsOnly(KeyOfId(id)) =>
            /\ KeyOfId(id) \notin DOMAIN cache
            /\ KeyOfId(id) \notin DOMAIN cacheFile.content
       /\ (ipc = "loop" /\ i < Len(sliced) /\ ~skipGeocode /\ ErrorsOnly(CurrentKey)) =>
            /\ ipc' = "sleeping"
            /\ LastEvent = [kind |-> "sleep", id |-> CurrentId, query |-> <<>>,
                            ms |-> ConfiguredDelay]
       /\ (ipc = "sleeping" /\ ErrorsOnly(CurrentKey)) =>
            /\ ipc' = "fetching"
            /\ LastEvent = [kind |-> "call", id |-> CurrentId,
                            query |-> QueryOf(CurrentPostal, CurrentName)]
    ]_vars

\* two rows with one key: the lookup of the first failed, the second row
\* was looked up anew and failed too, and the later run, having read the
\* cache file, has sent a request for the first row again
C24_Witness ==
    /\ Len(csv) = 2
    /\ KeyOfId(1) = KeyOfId(2)
    /\ Len(netLog) = 12
    /\ netLog[4].kind = "error" /\ netLog[4].id = 1
    /\ netLog[5].kind = "sleep" /\ netLog[5].id = 2
    /\ netLog[6].kind = "call"
    /\ netLog[7].kind = "error"
    /\ netLog[8].kind = "persist" /\ netLog[8].ok
    /\ netLog[9].kind = "run"
    /\ netLog[10].kind = "load" /\ netLog[10].ok
    /\ netLog[11].kind = "sleep" /\ netLog[11].id = 1
    /\ netLog[12].kind = "call"
    /\ ipc = "fetching"

(***************************************************************************)
(* Properties of App                                                       *)
(***************************************************************************)
\* what getCurrentPlan returns now
CurrentPlan == getCurrentPlan(users, session, plans)

\* C25: while App is on screen and the current plan is 'free', the compare
\* selection holds at most 3 building identifiers.
C25_FreePlanCompareLimit ==
    (apc = "mounted" /\ CurrentPlan = "free") => Len(app.compareBuildings) <= 3

\* C26: when App, opened again on the query string the sync effect wrote
\* for the values S, has run its mount effects and settled, its values are
\* S: search term, district, rating, type, tab, compare selection and page.
C26_LinkRoundTrip ==
    (Settled /\ linked # NoLink) => app = linked

\* the same, for every value but the page
C26_LinkKeepsAllButPage ==
    (Settled /\ linked # NoLink) => [app EXCEPT !.page = linked.page] = linked

\* C27: every result stored under a key POSTAL:<p> was the answer to the
\* request for "<p>, Singapore".
C27_KeyAndQueryAgree ==
    \A e \in EventsOf("found") :
        Head(KeyOfId(netLog[e].id)) = "POSTAL:" =>
            /\ KeyOfId(netLog[e].id) \in DOMAIN cache
            /\ netLog[e - 1].kind = "call"
            /\ netLog[e - 1].query = Tail(KeyOfId(netLog[e].id)) \o <<", Singapore">>

\* the fixed list of known district names, as a set
KnownNames == {KNOWN[j] : j \in 1..Len(KNOWN)}

\* C28: a district returned through the allow-list match, that is one equal
\* to a known name but for the case of its letters, is spelled exactly as
\* that name; and the district returned is never empty and never a name
\* the generic filter matches.
C28_ReturnsListedSpelling ==
    DistrictResolved =>
        /\ ToLowerCase(geo.district) \in KnownLower => geo.district \in KnownNames
        /\ geo.district # <<>>
        /\ ToLowerCase(geo.district) \notin GenericLower

\* the same without the spelling: the district returned is never empty and
\* never generic
C28_NeverEmptyNorGeneric ==
    DistrictResolved =>
        /\ geo.district # <<>>
        /\ ToLowerCase(geo.district) \notin GenericLower

\* an email after trimming and lower-casing
Normalised(email) == ToLowerCase(Trim(email))

\* e is the email, trimmed and lower-cased, of a user in storage
StoredEmail(e) == \E j \in 1..Len(users) : Normalised(users[j].email) = e

\* no two users in storage have the same email after trimming and
\* lower-casing
EmailsUnique ==
    \A j, k \in 1..Len(users) :
        Normalised(users[j].email) = Normalised(users[k].email) => j = k

\* the step is a call of register
RegisterCall == authResult'.call = "register"

\* register returned the error for an email in storage and left the users
\* and the session alone
RegisterRefused ==
    /\ ~authResult'.ok
    /\ authResult'.error = "Email already registered"
    /\ UNCHANGED <<users, session>>

\* a register that succeeds appends one user, with the email of the call,
\* and the session holds that user's identifier
RegisterAppendsOne ==
    authResult'.ok =>
        /\ Len(users') = Len(users) + 1
        /\ SubSeq(users', 1, Len(users)) = users
        /\ users'[Len(users')].email = authResult'.email
        /\ session' = users'[Len(users')].id

TierOfActor ==
    IF actor = <<>> THEN "free"
    ELSE IF actor \in DOMAIN lastSet THEN lastSet[actor] ELSE "free"

\* setCurrentPlan called with nobody logged in leaves the plans alone
SetPlanLoggedOutKeepsPlans ==
    authResult'.call = "setCurrentPlan" /\ actor = <<>> => plans' = plans

\* C30: getCurrentPlan returns the tier most recently set by the user who
\* is logged in, 'free' if that user never set one and 'free' when nobody is
\* logged in, so that no user sees a tier another user chose; and
\* setCurrentPlan with nobody logged in changes nothing.
C30_PlanFollowsUser ==
    /\ [](getCurrentPlan(users, session, plans) = TierOfActor)
    /\ [][SetPlanLoggedOutKeepsPlans]_vars

\* the part of C30 about calls with nobody logged in, on its own
C30_LoggedOutSetsNothing == [][SetPlanLoggedOutKeepsPlans]_vars

\* the identifiers in storage differ and none is the empty string
IdsDistinct ==
    \A j, k \in 1..Len(users) :
        /\ users[j].id # EmptyId
        /\ users[j].id = users[k].id => j = k

\* C30 for storage whose identifiers differ
C30_PlanFollowsUserDistinctIds ==
    [](IdsDistinct => getCurrentPlan(users, session, plans) = TierOfActor)

====
